---------------------------- MODULE Spec2Model ----------------------------
(***************************************************************************)
(* A model of gip: the manifest schema and its migration                   *)
(* (src/src/manifest/types.rs, src/src/manifest/storage.rs), the git-notes *)
(* store (src/src/git.rs) and the conflict enrichment engine               *)
(* (src/src/merge.rs).                                                     *)
(*                                                                         *)
(* Text is modelled as it is in the program: a String is a sequence of     *)
(* one-character strings, so starts_with, contains, lines() and format!    *)
(* are computed character by character.  An Option<T> is a sequence of     *)
(* length 0 (None) or 1 (Some(x)).                                         *)
(***************************************************************************)
EXTENDS Integers, Sequences, FiniteSets, TLC

VARIABLES
    mig_pc,       \* migration harness: "input", "once", "twice"
    mig_in,       \* the manifest handed to migrate_v1_to_v2
    mig_out,      \* migrate_v1_to_v2(mig_in)
    mig_out2,     \* migrate_v1_to_v2(mig_out)
    notes,        \* refs/notes/gip: commit id -> Option<note text (JSON)>
    load_sha,     \* the commit id of the last Store.load
    load_res,     \* Result<Manifest> of the last Store.load
    saved,        \* history: commit id -> the manifest of the last save, if
                  \* the note of that commit was last written by save
    overwritten,  \* history: commit id -> the last save replaced a note
    wt_file,      \* the conflicted file in the working tree: Option<text>
    enr_pc,       \* enrich_conflict_markers: "idle", "start", "loop", "done"
    enr_content,  \* content: the text read from the file
    enr_ours,     \* ours_manifest: Option<Manifest>
    enr_theirs,   \* theirs_manifest: Option<Manifest>
    enr_lines,    \* lines
    enr_idx,      \* current_line_idx
    enr_output,   \* output
    enr_result,   \* Option<Result<bool>>: what the call returned
    enr_written,  \* whether fs::write was called
    enr_blocks,   \* the blocks pushed so far: line index, side, text
    enr_passes,   \* history: the number of times the file was rewritten
    pend_in,      \* the manifest handed to save_pending
    pend_file,    \* .gip/pending.json: Option<text>
    pend_res,     \* Option<Result<Manifest>> of the last load_pending
    fe_manifest,  \* find_entry: manifest
    fe_path,      \* find_entry: file_path
    fe_context,   \* find_entry: context, Option<lines>
    fe_res,       \* Option<Option<Entry>>: what find_entry returned
    fm_block,     \* Option<text>: what format_enriched_marker returned
    orch_tree,    \* enrich_all_conflicts: the conflicted files, in list order
    orch_idx,     \* the number of files the loop has been through
    orch_count,   \* enriched_count
    orch_result,  \* Option<Result<usize>>: what enrich_all_conflicts returned
    orch_enriched, \* history: the positions of the files rewritten
    cmd_kind,     \* gip merge / gip rebase: "merge" or "rebase"
    cmd_status,   \* ExitStatus of git: Option<code>, None when killed
    cmd_head,     \* whether git rev-parse HEAD succeeds
    cmd_other,    \* whether git rev-parse MERGE_HEAD / REBASE_HEAD succeeds
    cmd_pc,       \* "idle", "git", "enrich", "done"
    cmd_exit,     \* Option<code>: the exit code of the process
    com_force,    \* gip commit: --force
    com_git_ok,   \* whether git commit will succeed
    com_file,     \* .gip/manifest.toon: Option<text>
    com_file0,    \* history: .gip/manifest.toon when the command started
    com_manifest, \* manifest: Option<Manifest>, decoded from the file
    com_pc,       \* "idle", "start", "git", "note", "done"
    com_invoked,  \* history: git commit was invoked
    com_result,   \* Option<Result<()>>: how the command ended
    com_commits,  \* the number of commits git commit has made
    com_authored  \* history: the authoring file was written by its author
                  \* since a manifest was last attached to a commit

mig_vars == <<mig_pc, mig_in, mig_out, mig_out2>>
load_vars == <<load_sha, load_res, saved, overwritten>>
enr_vars == <<wt_file, enr_pc, enr_content, enr_ours, enr_theirs, enr_lines,
              enr_idx, enr_output, enr_result, enr_written, enr_blocks,
              enr_passes>>

\* the state of the migration, the store and the rewriter
core_vars == <<mig_vars, notes, load_vars, enr_vars>>

\* the state of the other operations
pend_vars == <<pend_in, pend_file, pend_res>>
find_vars == <<fe_manifest, fe_path, fe_context, fe_res, fm_block>>
orch_vars == <<orch_tree, orch_idx, orch_count, orch_result, orch_enriched>>
cmd_vars == <<cmd_kind, cmd_status, cmd_head, cmd_other, cmd_pc, cmd_exit>>
com_vars == <<com_force, com_git_ok, com_file, com_file0, com_manifest, com_pc,
              com_invoked, com_result, com_commits, com_authored>>
ext_vars == <<pend_vars, find_vars, orch_vars, cmd_vars, com_vars>>
\* all the state but that of one group
but_pend_vars == <<core_vars, find_vars, orch_vars, cmd_vars, com_vars>>
but_find_vars == <<core_vars, pend_vars, orch_vars, cmd_vars, com_vars>>
but_orch_vars == <<mig_vars, load_vars, enr_vars, pend_vars, find_vars, cmd_vars,
                   com_vars>>
but_cmd_vars == <<core_vars, pend_vars, find_vars, com_vars>>
but_com_vars == <<mig_vars, load_vars, enr_vars, pend_vars, find_vars, orch_vars,
                  cmd_vars>>

vars == <<core_vars, ext_vars>>

---------------------------------------------------------------------------
(* Option<T> and String helpers *)

None == <<>>
Some(x) == <<x>>
is_none(o) == Len(o) = 0
is_some(o) == Len(o) = 1
unwrap(o) == o[1]

is_empty(s) == Len(s) = 0

\* str::starts_with
starts_with(s, p) ==
    /\ Len(s) >= Len(p)
    /\ \A i \in 1..Len(p) : s[i] = p[i]

\* str::contains
contains(s, p) ==
    \E i \in 0..(Len(s) - Len(p)) : \A j \in 1..Len(p) : s[i + j] = p[j]

---------------------------------------------------------------------------
(* src/src/manifest/types.rs *)

SCHEMA_VERSION_1_0 == <<"1", ".", "0">>
SCHEMA_VERSION_2_0 == <<"2", ".", "0">>
SCHEMA_VERSION_CURRENT == SCHEMA_VERSION_2_0

\* a version string no release of the schema has used
SCHEMA_VERSION_UNKNOWN == <<"3", ".", "0">>

HUNK_DEFAULT == <<"H", "#", "0">>
HUNK_1 == <<"H", "#", "1">>

\* struct Compatibility
Compatibility(breaking, deprecations, migrations, bb, sb, dmm) ==
    [breaking |-> breaking, deprecations |-> deprecations,
     migrations |-> migrations, binary_breaking |-> bb,
     source_breaking |-> sb, data_model_migration |-> dmm]

\* struct Contract
Contract(inputs, outputs, pre, post, err) ==
    [inputs |-> inputs, outputs |-> outputs, preconditions |-> pre,
     postconditions |-> post, error_model |-> err]

\* struct Anchor
Anchor(file, symbol, hunk_id) ==
    [file |-> file, symbol |-> symbol, hunk_id |-> hunk_id]

\* struct SignatureDelta
SignatureDelta(before, after) == [before |-> before, after |-> after]

\* struct PerfBudget
PerfBudget(expected_max_latency_ms, cpu_delta_pct) ==
    [expected_max_latency_ms |-> expected_max_latency_ms,
     cpu_delta_pct |-> cpu_delta_pct]

\* struct GlobalIntent
GlobalIntent(behavior_class, rationale) ==
    [behavior_class |-> behavior_class, rationale |-> rationale]

\* struct Manifest
Manifest(schema_version, commit, global_intent, entries) ==
    [schema_version |-> schema_version, commit |-> commit,
     global_intent |-> global_intent, entries |-> entries]


\* struct Entry
Entry(anchor, change_type, rationale, behavior_class, contract, side_effects, compatibility, inherits_global_intent) ==
    [anchor |-> anchor, change_type |-> change_type, rationale |-> rationale,
     signature_delta |-> None, behavior_class |-> behavior_class,
     contract |-> contract, side_effects |-> side_effects,
     compatibility |-> compatibility, tests_touched |-> None,
     perf_budget |-> None, security_notes |-> None, feature_flags |-> None,
     inherits_global_intent |-> inherits_global_intent]

---------------------------------------------------------------------------
(* src/src/manifest/storage.rs: migrate_v1_to_v2 *)

\* lines 81-86: absent deprecations / migrations become empty lists
init_list(list) == IF is_none(list) THEN Some(<<>>) ELSE list

\* map_breaking with `breaking` toggled by the legacy flags instead of forced
map_breaking_toggle(compat) ==
    compat.breaking #
        (compat.binary_breaking = Some(TRUE) \/ compat.source_breaking = Some(TRUE))

\* map_breaking reading binary_breaking only
map_breaking_binary_only(compat) ==
    IF compat.binary_breaking = Some(TRUE) THEN TRUE ELSE compat.breaking

\* lines 89-91: the legacy flags force `breaking`
map_breaking(compat) ==
    IF compat.binary_breaking = Some(TRUE) \/ compat.source_breaking = Some(TRUE)
    THEN TRUE
    ELSE compat.breaking

\* migrate_compat consuming the legacy flags it has mapped
migrate_compat_clear_legacy(compat) ==
    [compat EXCEPT !.deprecations = init_list(compat.deprecations),
                   !.migrations = init_list(compat.migrations),
                   !.breaking = map_breaking(compat),
                   !.binary_breaking = None,
                   !.source_breaking = None]

\* lines 79-92: the body of `if let Some(ref mut compat)`
migrate_compat(compat) ==
    [compat EXCEPT !.deprecations = init_list(compat.deprecations),
                   !.migrations = init_list(compat.migrations),
                   !.breaking = map_breaking(compat)]

\* migrate_hunk_id leaving an empty hunk id empty
migrate_hunk_id_skip(hunk_id) == hunk_id

\* lines 95-97
migrate_hunk_id(hunk_id) == IF is_empty(hunk_id) THEN HUNK_DEFAULT ELSE hunk_id

\* lines 78-98: one iteration of `for entry in &mut manifest.entries`
migrate_entry(entry) ==
    [entry EXCEPT
        !.compatibility = IF is_some(entry.compatibility)
                          THEN Some(migrate_compat(unwrap(entry.compatibility)))
                          ELSE None,
        !.anchor.hunk_id = migrate_hunk_id(entry.anchor.hunk_id)]

\* lines 73-101
migrate_v1_to_v2(manifest) ==
    [manifest EXCEPT
        !.schema_version = SCHEMA_VERSION_2_0,
        !.entries = [i \in 1..Len(manifest.entries) |->
                        migrate_entry(manifest.entries[i])]]

---------------------------------------------------------------------------
(* serde_json on the derives of src/src/manifest/types.rs.  A JSON object  *)
(* is a function from its keys to its values: a key left out by           *)
(* skip_serializing_if is not in its domain.  A Result<T> is Ok(x) or Err.*)

Ok(x) == [ok |-> TRUE, val |-> x]
Err(e) == [ok |-> FALSE, err |-> e]

EmptyObj == [k \in {} |-> None]
has(obj, k) == k \in DOMAIN obj

\* #[serde(skip_serializing_if = "Option::is_none")]
ser_opt(k, o) == IF is_some(o) THEN k :> unwrap(o) ELSE EmptyObj
\* #[serde(default, skip_serializing_if = "Vec::is_empty")]
ser_vec(k, v) == IF is_empty(v) THEN EmptyObj ELSE k :> v
\* an Option field: a missing key is None
de_opt(obj, k) == IF has(obj, k) THEN Some(obj[k]) ELSE None
\* #[serde(default)] on a Vec: a missing key is the empty list
de_vec(obj, k) == IF has(obj, k) THEN obj[k] ELSE <<>>

\* Serialize for Compatibility (types.rs 110-125)
ser_compatibility(c) ==
    ("breaking" :> c.breaking)
        @@ ser_opt("deprecations", c.deprecations)
        @@ ser_opt("migrations", c.migrations)
        @@ ser_opt("binaryBreaking", c.binary_breaking)
        @@ ser_opt("sourceBreaking", c.source_breaking)
        @@ ser_opt("dataModelMigration", c.data_model_migration)

\* Deserialize for Compatibility
de_compatibility_ok(o) == has(o, "breaking")
de_compatibility(o) ==
    Compatibility(o["breaking"], de_opt(o, "deprecations"), de_opt(o, "migrations"),
                  de_opt(o, "binaryBreaking"), de_opt(o, "sourceBreaking"),
                  de_opt(o, "dataModelMigration"))

\* Serialize for SignatureDelta (types.rs 86-91)
ser_signature_delta(d) == [before |-> d.before, after |-> d.after]

de_signature_delta_ok(o) == {"before", "after"} \subseteq DOMAIN o
de_signature_delta(o) == SignatureDelta(o["before"], o["after"])

\* Serialize for PerfBudget (types.rs 128-135)
ser_perf_budget(b) ==
    ser_opt("expectedMaxLatencyMs", b.expected_max_latency_ms)
        @@ ser_opt("cpuDeltaPct", b.cpu_delta_pct)

\* Deserialize for PerfBudget: no key is required
de_perf_budget(o) ==
    PerfBudget(de_opt(o, "expectedMaxLatencyMs"), de_opt(o, "cpuDeltaPct"))

\* ser_contract leaving postconditions out
ser_contract_no_postconditions(c) ==
    ser_opt("inputs", c.inputs)
        @@ ser_opt("outputs", c.outputs)
        @@ ser_vec("preconditions", c.preconditions)
        @@ ser_vec("errorModel", c.error_model)

\* Serialize for Contract (types.rs 94-107)
ser_contract(c) ==
    ser_opt("inputs", c.inputs)
        @@ ser_opt("outputs", c.outputs)
        @@ ser_vec("preconditions", c.preconditions)
        @@ ser_vec("postconditions", c.postconditions)
        @@ ser_vec("errorModel", c.error_model)

\* Deserialize for Contract: no key is required
de_contract(o) ==
    Contract(de_opt(o, "inputs"), de_opt(o, "outputs"), de_vec(o, "preconditions"),
             de_vec(o, "postconditions"), de_vec(o, "errorModel"))

\* Serialize for Anchor (types.rs 77-83)
ser_anchor(a) ==
    [file |-> a.file, symbol |-> a.symbol, hunkId |-> a.hunk_id]

de_anchor_ok(o) == {"file", "symbol", "hunkId"} \subseteq DOMAIN o
de_anchor(o) == Anchor(o["file"], o["symbol"], o["hunkId"])

\* Serialize for GlobalIntent (types.rs 42-47)
ser_global_intent(g) ==
    [behaviorClass |-> g.behavior_class, rationale |-> g.rationale]

de_global_intent_ok(o) == {"behaviorClass", "rationale"} \subseteq DOMAIN o
de_global_intent(o) == GlobalIntent(o["behaviorClass"], o["rationale"])

\* Serialize for Entry (types.rs 50-74)
ser_entry(e) ==
    [anchor |-> ser_anchor(e.anchor), changeType |-> e.change_type,
     rationale |-> e.rationale, behaviorClass |-> e.behavior_class,
     contract |-> ser_contract(e.contract)]
        @@ (IF is_some(e.signature_delta)
            THEN "signatureDelta" :> ser_signature_delta(unwrap(e.signature_delta))
            ELSE EmptyObj)
        @@ ser_vec("sideEffects", e.side_effects)
        @@ (IF is_some(e.compatibility)
            THEN "compatibility" :> ser_compatibility(unwrap(e.compatibility))
            ELSE EmptyObj)
        @@ ser_opt("testsTouched", e.tests_touched)
        @@ (IF is_some(e.perf_budget)
            THEN "perfBudget" :> ser_perf_budget(unwrap(e.perf_budget))
            ELSE EmptyObj)
        @@ ser_opt("securityNotes", e.security_notes)
        @@ ser_opt("featureFlags", e.feature_flags)
        @@ ser_opt("inheritsGlobalIntent", e.inherits_global_intent)

de_entry_ok(o) ==
    /\ {"anchor", "changeType", "rationale", "behaviorClass", "contract"}
          \subseteq DOMAIN o
    /\ de_anchor_ok(o["anchor"])
    /\ has(o, "compatibility") => de_compatibility_ok(o["compatibility"])
    /\ has(o, "signatureDelta") => de_signature_delta_ok(o["signatureDelta"])

de_entry(o) ==
    [anchor |-> de_anchor(o["anchor"]), change_type |-> o["changeType"],
     rationale |-> o["rationale"],
     signature_delta |-> IF has(o, "signatureDelta")
                         THEN Some(de_signature_delta(o["signatureDelta"]))
                         ELSE None,
     behavior_class |-> o["behaviorClass"],
     contract |-> de_contract(o["contract"]),
     side_effects |-> de_vec(o, "sideEffects"),
     compatibility |-> IF has(o, "compatibility")
                       THEN Some(de_compatibility(o["compatibility"]))
                       ELSE None,
     tests_touched |-> de_opt(o, "testsTouched"),
     perf_budget |-> IF has(o, "perfBudget")
                     THEN Some(de_perf_budget(o["perfBudget"]))
                     ELSE None,
     security_notes |-> de_opt(o, "securityNotes"),
     feature_flags |-> de_opt(o, "featureFlags"),
     inherits_global_intent |-> de_opt(o, "inheritsGlobalIntent")]

\* Serialize for Manifest (types.rs 31-39)
ser_manifest(m) ==
    [schemaVersion |-> m.schema_version, commit |-> m.commit,
     entries |-> [i \in 1..Len(m.entries) |-> ser_entry(m.entries[i])]]
        @@ (IF is_some(m.global_intent)
            THEN "globalIntent" :> ser_global_intent(unwrap(m.global_intent))
            ELSE EmptyObj)

de_manifest_ok(o) ==
    /\ {"schemaVersion", "commit", "entries"} \subseteq DOMAIN o
    /\ \A i \in 1..Len(o["entries"]) : de_entry_ok(o["entries"][i])
    /\ has(o, "globalIntent") => de_global_intent_ok(o["globalIntent"])

de_manifest(o) ==
    Manifest(o["schemaVersion"], o["commit"],
             IF has(o, "globalIntent")
             THEN Some(de_global_intent(o["globalIntent"]))
             ELSE None,
             [i \in 1..Len(o["entries"]) |-> de_entry(o["entries"][i])])

\* A text is a JSON document (kind "json", with its value) or anything else
\* (kind "text"): serde_json::to_string_pretty and serde_json::from_str
JsonText(obj) == [kind |-> "json", value |-> obj]
NotJson == [kind |-> "text", value |-> EmptyObj]

to_string_pretty(m) == JsonText(ser_manifest(m))

from_str(text) ==
    IF text.kind = "json" /\ de_manifest_ok(text.value)
    THEN Ok(de_manifest(text.value))
    ELSE Err("Failed to parse manifest JSON")

---------------------------------------------------------------------------
(* src/src/git.rs: the notes under refs/notes/gip                          *)

\* the commit ids of the repository
SHA_OURS == <<"a", "1">>
SHA_THEIRS == <<"b", "2">>
CommitIds == {SHA_OURS, SHA_THEIRS}

NoNotes == [c \in CommitIds |-> None]

\* add_note without -f: git refuses to replace an existing note
add_note_keep_existing(ns, commit_sha, content) ==
    IF ns[commit_sha] = <<>> THEN [ns EXCEPT ![commit_sha] = <<content>>] ELSE ns

\* add_note (58-72): git notes --ref=gip add -f -m <content> <sha>
add_note(ns, commit_sha, content) == [ns EXCEPT ![commit_sha] = Some(content)]

\* get_note (75-77): git notes --ref=gip show <sha>; git fails without a note
get_note(ns, commit_sha) ==
    IF is_some(ns[commit_sha]) THEN Ok(unwrap(ns[commit_sha]))
    ELSE Err("Git command failed")

---------------------------------------------------------------------------
(* src/src/manifest/storage.rs: save and load *)

\* save (13-21)
save(ns, manifest, commit_sha) ==
    add_note(ns, commit_sha, to_string_pretty(manifest))

\* load 33-36: the versions load hands to the migrator
needs_migration(manifest) ==
    is_empty(manifest.schema_version)
        \/ manifest.schema_version = SCHEMA_VERSION_1_0

\* load (24-39)
load(ns, commit_sha) ==
    LET data == get_note(ns, commit_sha) IN
    IF ~data.ok THEN Err("Failed to read manifest from git notes")
    ELSE LET parsed == from_str(data.val) IN
         IF ~parsed.ok THEN parsed
         ELSE IF needs_migration(parsed.val)
              THEN Ok(migrate_v1_to_v2(parsed.val))
              ELSE Ok(parsed.val)

\* save_pending (42-58): the text written to .gip/pending.json
save_pending(manifest) == Some(to_string_pretty(manifest))

\* load_pending (61-70): f is .gip/pending.json, None when it does not exist
load_pending(f) ==
    IF is_none(f) THEN Err("Failed to read pending manifest")
    ELSE LET parsed == from_str(unwrap(f)) IN
         IF parsed.ok THEN parsed ELSE Err("Failed to parse pending manifest")

---------------------------------------------------------------------------
(* Text helpers: std::str and std::path as src/src/merge.rs uses them *)

Digits == <<"0", "1", "2", "3", "4", "5", "6", "7", "8", "9">>

\* the concatenation of a sequence of strings (String::push_str in order)
RECURSIVE concat(_)
concat(ss) ==
    IF Len(ss) = 0 THEN <<>>
    ELSE IF Len(ss) = 1 THEN ss[1]
    ELSE LET mid == Len(ss) \div 2 IN
         concat(SubSeq(ss, 1, mid)) \o concat(SubSeq(ss, mid + 1, Len(ss)))

\* [String]::join(sep)
RECURSIVE join(_, _)
join(ss, sep) ==
    IF Len(ss) = 0 THEN <<>>
    ELSE IF Len(ss) = 1 THEN ss[1]
    ELSE ss[1] \o sep \o join(Tail(ss), sep)

\* char::is_whitespace, on the characters of the model
is_whitespace(c) == c \in {" ", "\t", "\n", "\r"}

\* line.chars().take_while(|c| c.is_whitespace()).count()
leading_whitespace(s) ==
    LET stops == {i \in 1..Len(s) : ~is_whitespace(s[i])} IN
    IF stops = {} THEN Len(s)
    ELSE (CHOOSE i \in stops : \A j \in stops : i <= j) - 1

\* str::trim
trim(s) ==
    LET keep == {i \in 1..Len(s) : ~is_whitespace(s[i])} IN
    IF keep = {} THEN <<>>
    ELSE SubSeq(s, CHOOSE i \in keep : \A j \in 1..(i - 1) : is_whitespace(s[j]),
                   CHOOSE i \in keep : \A j \in (i + 1)..Len(s) : is_whitespace(s[j]))

\* str::trim_start_matches(pat): every repetition of the prefix is removed
RECURSIVE trim_start_matches(_, _)
trim_start_matches(s, pat) ==
    IF Len(pat) > 0 /\ starts_with(s, pat)
    THEN trim_start_matches(SubSeq(s, Len(pat) + 1, Len(s)), pat)
    ELSE s

\* a line ended by "\n" loses one "\r" before it
strip_cr(line) ==
    IF Len(line) > 0 /\ line[Len(line)] = "\r"
    THEN SubSeq(line, 1, Len(line) - 1)
    ELSE line

\* str::lines: the text is split after every "\n"; the last line need not
\* end in one, and an empty last line is no line
str_lines(s) ==
    LET IsNewline(i) == s[i] = "\n"
        ends == SelectSeq([i \in 1..Len(s) |-> i], IsNewline)
        n == Len(ends)
        rest == IF n = 0 THEN 1 ELSE ends[n] + 1 IN
    [k \in 1..n |->
        strip_cr(SubSeq(s, IF k = 1 THEN 1 ELSE ends[k - 1] + 1, ends[k] - 1))]
    \o (IF rest <= Len(s) THEN <<SubSeq(s, rest, Len(s))>> ELSE <<>>)

\* the components of a path: the pieces between "/", without the empty ones
\* and without "." (std::path::Path::components)
RECURSIVE components_from(_, _)
components_from(p, i) ==
    IF i > Len(p) THEN <<>>
    ELSE LET j == CHOOSE j \in i..(Len(p) + 1) :
                      /\ j = Len(p) + 1 \/ p[j] = "/"
                      /\ \A k \in i..(j - 1) : p[k] # "/"
             piece == SubSeq(p, i, j - 1) IN
         (IF piece = <<>> \/ piece = <<".">> THEN <<>> ELSE <<piece>>)
             \o components_from(p, j + 1)

\* Path::file_name: the last component, None for an empty path and for a
\* path ending in ".."
file_name(p) ==
    LET cs == components_from(p, 1) IN
    IF Len(cs) = 0 \/ cs[Len(cs)] = <<".", ".">> THEN None
    ELSE Some(cs[Len(cs)])

\* format!("{}", i) for a usize below 10
fmt_usize(i) == <<Digits[i + 1]>>

\* format!("{}", b) for a bool
fmt_bool(b) == IF b THEN <<"t", "r", "u", "e">> ELSE <<"f", "a", "l", "s", "e">>

---------------------------------------------------------------------------
(* src/src/merge.rs: find_entry and format_enriched_marker *)

CONFLICT_START == <<"<", "<", "<", "<", "<", "<", "<">>
CONFLICT_MIDDLE == <<"=", "=", "=", "=", "=", "=", "=">>
CONFLICT_END == <<">", ">", ">", ">", ">", ">", ">">>

\* the state of the scan of find_entry (217-218): best_entry and min_indent;
\* min_indent None stands for usize::MAX, which is above every indentation
ScanInit == [best_entry |-> None, min_indent |-> None]

\* indent <= min_indent: a later match of the same indentation wins
indent_not_above(indent, min_indent) ==
    min_indent = <<>> \/ indent <= min_indent[1]

\* line 231: indent < min_indent
indent_below(indent, min_indent) ==
    is_none(min_indent) \/ indent < unwrap(min_indent)

\* lines 225-236: the inner loop over file_entries, from entry k on
RECURSIVE scan_entries(_, _, _, _)
scan_entries(line, file_entries, k, acc) ==
    IF k > Len(file_entries) THEN acc
    ELSE LET entry == file_entries[k]
             indent == leading_whitespace(line) IN
         scan_entries(line, file_entries, k + 1,
             IF contains(line, entry.anchor.symbol)
                    /\ indent_below(indent, acc.min_indent)
             THEN [best_entry |-> Some(entry), min_indent |-> Some(indent)]
             ELSE acc)

\* line 231 between two stretches of lines: the match of the lines scanned
\* later replaces the match of the lines scanned earlier when its
\* indentation is below min_indent
later_match(earlier, later) ==
    IF is_some(later.best_entry)
           /\ indent_below(unwrap(later.min_indent), earlier.min_indent)
    THEN later
    ELSE earlier

\* lines 221-237: `for line in lines.iter().rev()`, from line hi down to
\* line lo: the upper half of the lines first, then the lower half
RECURSIVE scan_range(_, _, _, _)
scan_range(lines, file_entries, lo, hi) ==
    IF lo > hi THEN ScanInit
    ELSE IF lo = hi THEN scan_entries(lines[hi], file_entries, 1, ScanInit)
    ELSE LET mid == (lo + hi) \div 2 IN
         later_match(scan_range(lines, file_entries, mid + 1, hi),
                     scan_range(lines, file_entries, lo, mid))

\* the scan from line i down to line 1, entered with best_entry and
\* min_indent as in acc
scan_lines(lines, file_entries, i, acc) ==
    later_match(acc, scan_range(lines, file_entries, 1, i))

\* file_matches on the whole path only
file_matches_exact(entry, file_path, filename) ==
    entry.anchor.file = file_path

\* lines 203-209: the entries anchored to the file or to a file of its name
file_matches(entry, file_path, filename) ==
    entry.anchor.file = file_path \/ file_name(entry.anchor.file) = Some(filename)

\* the fallback taking the last entry for the file
fallback_entry_last(file_entries) == <<file_entries[Len(file_entries)]>>

\* line 245: the first entry for the file
fallback_entry(file_entries) == Some(file_entries[1])

\* find_entry with the entries anchored to the whole path ahead of those
\* anchored to a file of its name
find_entry_exact_first(manifest, file_path, context) ==
    IF file_name(file_path) = <<>> THEN <<>>
    ELSE LET filename == file_name(file_path)[1]
             Exact(e) == e.anchor.file = file_path
             NameOnly(e) ==
                 e.anchor.file # file_path /\ file_name(e.anchor.file) = <<filename>>
             file_entries ==
                 SelectSeq(manifest.entries, Exact) \o SelectSeq(manifest.entries, NameOnly) IN
         IF file_entries = <<>> THEN <<>>
         ELSE LET found ==
                      IF context # <<>>
                      THEN scan_lines(context[1], file_entries,
                                      Len(context[1]), ScanInit).best_entry
                      ELSE <<>> IN
              IF found # <<>> THEN found ELSE <<file_entries[1]>>

\* find_entry (195-246); context is an Option<&[&str]>
find_entry(manifest, file_path, context) ==
    IF is_none(file_name(file_path)) THEN None
    ELSE LET filename == unwrap(file_name(file_path))
             Matches(e) == file_matches(e, file_path, filename)
             file_entries == SelectSeq(manifest.entries, Matches) IN
         IF Len(file_entries) = 0 THEN None
         ELSE LET found ==
                      IF is_some(context)
                      THEN scan_lines(unwrap(context), file_entries,
                                      Len(unwrap(context)), ScanInit).best_entry
                      ELSE None IN
              IF is_some(found) THEN found ELSE fallback_entry(file_entries)

\* the prefix of every line format_enriched_marker starts
MARKER_PREFIX == <<"|", "|", "|", " ">>

\* one line "||| <label>: <value>\n"
marker_line(label, value) ==
    MARKER_PREFIX \o label \o <<":", " ">> \o value \o <<"\n">>

\* the lines "||| <label>[i]: <item>\n" of a list, i from 0
marker_list(label, list) ==
    concat([i \in 1..Len(list) |->
        MARKER_PREFIX \o label \o <<"[">> \o fmt_usize(i - 1) \o <<"]", ":", " ">>
            \o list[i] \o <<"\n">>])

\* lines 124-180: the lines of a matched entry
entry_lines(e) ==
    (IF ~is_empty(e.behavior_class)
     THEN marker_line(<<"b", "e", "h", "a", "v", "i", "o", "r", "C", "l", "a", "s", "s">>, join(e.behavior_class, <<",", " ">>))
     ELSE <<>>)
    \o (IF ~is_empty(e.rationale)
        THEN marker_line(<<"r", "a", "t", "i", "o", "n", "a", "l", "e">>, e.rationale) ELSE <<>>)
    \o (IF is_some(e.compatibility)
        THEN LET compat == unwrap(e.compatibility) IN
             marker_line(<<"b", "r", "e", "a", "k", "i", "n", "g">>, fmt_bool(compat.breaking))
             \o (IF is_some(compat.migrations)
                 THEN marker_list(<<"m", "i", "g", "r", "a", "t", "i", "o", "n", "s">>, unwrap(compat.migrations))
                 ELSE <<>>)
        ELSE <<>>)
    \o (IF is_some(e.contract.inputs)
        THEN marker_list(<<"i", "n", "p", "u", "t", "s">>, unwrap(e.contract.inputs)) ELSE <<>>)
    \o (IF is_some(e.contract.outputs)
        THEN marker_line(<<"o", "u", "t", "p", "u", "t", "s">>, unwrap(e.contract.outputs)) ELSE <<>>)
    \o marker_list(<<"p", "r", "e", "c", "o", "n", "d", "i", "t", "i", "o", "n", "s">>, e.contract.preconditions)
    \o marker_list(<<"p", "o", "s", "t", "c", "o", "n", "d", "i", "t", "i", "o", "n", "s">>, e.contract.postconditions)
    \o marker_list(<<"e", "r", "r", "o", "r", "M", "o", "d", "e", "l">>, e.contract.error_model)
    \o marker_list(<<"s", "i", "d", "e", "E", "f", "f", "e", "c", "t", "s">>, e.side_effects)
    \o marker_line(<<"s", "y", "m", "b", "o", "l">>, e.anchor.symbol)

\* the fallback showing the rationale alone
global_intent_rationale_only(manifest) ==
    IF is_some(manifest.global_intent)
    THEN marker_line(<<"r", "a", "t", "i", "o", "n", "a", "l", "e">>, unwrap(manifest.global_intent).rationale)
    ELSE <<>>

\* lines 183-189: the fallback to the global intent
global_intent_lines(manifest) ==
    IF is_some(manifest.global_intent)
    THEN LET gi == unwrap(manifest.global_intent) IN
         marker_line(<<"b", "e", "h", "a", "v", "i", "o", "r", "C", "l", "a", "s", "s">>, join(gi.behavior_class, <<",", " ">>))
         \o marker_line(<<"r", "a", "t", "i", "o", "n", "a", "l", "e">>, gi.rationale)
    ELSE <<>>

\* lines 118-119: the header and the commit line
marker_header(side, description, manifest) ==
    MARKER_PREFIX \o <<"G", "i", "p", " ", "C", "O", "N", "T", "E", "X", "T", " ", "(">> \o side \o <<" ", "-", " ">> \o description
        \o <<")", "\n">>
    \o marker_line(<<"C", "o", "m", "m", "i", "t">>, manifest.commit)

\* format_enriched_marker (109-193)
format_enriched_marker(side, description, manifest, file_path, context) ==
    LET entry == find_entry(manifest, file_path, context) IN
    marker_header(side, description, manifest)
    \o (IF is_some(entry) THEN entry_lines(unwrap(entry))
        ELSE global_intent_lines(manifest))

---------------------------------------------------------------------------
(* src/src/merge.rs: the loop of enrich_conflict_markers (64-103) *)

\* the sizes of the context windows (lines 72 and 88)
OURS_CONTEXT == 50
THEIRS_CONTEXT == 100

\* emit ending the line as Windows tools do
emit_crlf(line) == line \o <<"\r", "\n">>

\* output.push_str(line); output.push('\n')
emit(line) == line \o <<"\n">>

\* context_before without the limit on its size
context_before_unbounded(lines, current_line_idx, size) ==
    SubSeq(lines, 1, current_line_idx)

\* lines 72-73 and 88-89: &lines[context_start..current_line_idx]
context_before(lines, current_line_idx, size) ==
    LET context_start == IF current_line_idx > size
                         THEN current_line_idx - size ELSE 0 IN
    SubSeq(lines, context_start + 1, current_line_idx)

\* line 84: the label of the end delimiter
branch_of(line) == trim(trim_start_matches(line, CONFLICT_END))

\* the side and description arguments of lines 76 and 92
HEAD_LABEL == <<"H", "E", "A", "D">>
YOUR_CHANGES == <<"Y", "o", "u", "r", " ", "c", "h", "a", "n", "g", "e", "s">>
THEIR_CHANGES == <<"T", "h", "e", "i", "r", " ", "c", "h", "a", "n", "g", "e", "s">>

\* ours_block pushing nothing
ours_block_none(ours_manifest, file_path, lines, current_line_idx) == <<>>

\* theirs_block pushing nothing
theirs_block_none(theirs_manifest, file_path, lines, current_line_idx) == <<>>

\* lines 75-78: the block after the ours delimiter, "" without a manifest
ours_block(ours_manifest, file_path, lines, current_line_idx) ==
    IF is_some(ours_manifest)
    THEN format_enriched_marker(HEAD_LABEL, YOUR_CHANGES,
             unwrap(ours_manifest), file_path,
             Some(context_before(lines, current_line_idx, OURS_CONTEXT)))
    ELSE <<>>

\* lines 84-94: the block before the end delimiter, "" without a manifest
theirs_block(theirs_manifest, file_path, lines, current_line_idx) ==
    IF is_some(theirs_manifest)
    THEN format_enriched_marker(branch_of(lines[current_line_idx + 1]),
             THEIR_CHANGES, unwrap(theirs_manifest), file_path,
             Some(context_before(lines, current_line_idx, THEIRS_CONTEXT)))
    ELSE <<>>

\* on_conflict_start with the block pushed before the delimiter line
on_conflict_start_block_first(line, block) == block \o emit(line)

\* lines 67-78: what a line starting with CONFLICT_START adds to output
on_conflict_start(line, block) == emit(line) \o block

\* on_conflict_end writing the bare delimiter instead of the line read
on_conflict_end_bare(line, block) == block \o emit(CONFLICT_END)

\* lines 82-97: what a line starting with CONFLICT_END adds to output
on_conflict_end(line, block) == block \o emit(line)

---------------------------------------------------------------------------
(* Inputs of the migration: the manifests migrate_v1_to_v2 is applied to *)

\* the largest number of entries of a manifest
MaxEntries == 2

OptBool == {None, Some(TRUE), Some(FALSE)}

CHANGE_MODIFY == <<"m", "o", "d", "i", "f", "y">>
BEHAVIOR_BUGFIX == <<"b", "u", "g", "f", "i", "x">>
BEHAVIOR_FEATURE == <<"f", "e", "a", "t", "u", "r", "e">>
BEHAVIOR_REFACTOR == <<"r", "e", "f", "a", "c", "t", "o", "r">>

NoContract == Contract(None, None, <<>>, <<>>, <<>>)

\* the i-th entry of a manifest under migration: file old.rs, symbol f<i>
MigEntry(i, hunk_id, compatibility) ==
    Entry(Anchor(<<"o", "l", "d", ".", "r", "s">>, <<"f", Digits[i + 1]>>, hunk_id),
          CHANGE_MODIFY, <<"w", "h", "y">>, <<BEHAVIOR_BUGFIX>>, NoContract,
          <<>>, compatibility, None)

HunkIds == {<<>>, HUNK_1}

OptList == {None, Some(<<>>), Some(<<<<"u", "s", "e", " ", "v", "2">>>>)}

\* every compatibility block over the option values above
CompatPool ==
    {Compatibility(b, d, m, bb, sb, dmm) :
        b \in BOOLEAN, d \in {None, Some(<<<<"o", "l", "d">>>>)}, m \in OptList,
        bb \in OptBool, sb \in OptBool, dmm \in {None, Some(TRUE)}}

OptCompat == {None} \cup {Some(c) : c \in CompatPool}

\* entry lists of length n: one entry (at any position k) with any hunk id and
\* any compatibility, the others without a compatibility block
EntryLists(n) ==
    {[i \in 1..n |-> MigEntry(i, h[i], IF i = k THEN c ELSE None)] :
        k \in 1..n, c \in OptCompat, h \in [1..n -> HunkIds]}

SchemaVersions ==
    {<<>>, SCHEMA_VERSION_1_0, SCHEMA_VERSION_2_0, SCHEMA_VERSION_UNKNOWN}

OptGlobalIntent ==
    {None, Some(GlobalIntent(<<BEHAVIOR_REFACTOR>>, <<"a", "l", "l">>))}

COMMIT_OLD == <<"o", "l", "d", "1", "2", "3">>

MigManifests ==
    {Manifest(v, COMMIT_OLD, g, es) :
        v \in SchemaVersions, g \in OptGlobalIntent,
        es \in {<<>>} \cup UNION {EntryLists(n) : n \in 1..MaxEntries}}

---------------------------------------------------------------------------
(* The migration applied once and twice to every input manifest *)

\* no call of enrich_conflict_markers is in progress
IdleEnrich ==
    /\ wt_file = None
    /\ enr_pc = "idle"
    /\ enr_content = <<>>
    /\ enr_ours = None
    /\ enr_theirs = None
    /\ enr_lines = <<>>
    /\ enr_idx = 0
    /\ enr_output = <<>>
    /\ enr_result = None
    /\ enr_written = FALSE
    /\ enr_blocks = <<>>
    /\ enr_passes = 0

\* no manifest is pending
IdlePending ==
    /\ pend_in = Manifest(SCHEMA_VERSION_CURRENT, <<>>, None, <<>>)
    /\ pend_file = None
    /\ pend_res = None

\* find_entry is not under test
IdleFind ==
    /\ fe_manifest = Manifest(SCHEMA_VERSION_CURRENT, <<>>, None, <<>>)
    /\ fe_path = <<>>
    /\ fe_context = None
    /\ fe_res = None
    /\ fm_block = None

\* enrich_all_conflicts is not running
IdleOrch ==
    /\ orch_tree = <<>>
    /\ orch_idx = 0
    /\ orch_count = 0
    /\ orch_result = None
    /\ orch_enriched = {}

\* neither gip merge nor gip rebase is running
IdleCmd ==
    /\ cmd_kind = "merge"
    /\ cmd_status = None
    /\ cmd_head = TRUE
    /\ cmd_other = TRUE
    /\ cmd_pc = "idle"
    /\ cmd_exit = None

\* gip commit is not running
IdleCommit ==
    /\ com_force = FALSE
    /\ com_git_ok = TRUE
    /\ com_file = None
    /\ com_file0 = None
    /\ com_manifest = None
    /\ com_pc = "idle"
    /\ com_invoked = FALSE
    /\ com_result = None
    /\ com_commits = 0
    /\ com_authored = FALSE

\* none of the later operations has run
IdleExt == IdlePending /\ IdleFind /\ IdleOrch /\ IdleCmd /\ IdleCommit

\* no load has been made
IdleLoad ==
    /\ load_sha = None
    /\ load_res = None
    /\ saved = [c \in CommitIds |-> None]
    /\ overwritten = [c \in CommitIds |-> FALSE]

InitMigrate ==
    /\ mig_pc = "input"
    /\ mig_in \in MigManifests
    /\ mig_out = None
    /\ mig_out2 = None
    /\ notes = NoNotes
    /\ IdleLoad
    /\ IdleEnrich
    /\ IdleExt

\* let migrated = migrate_v1_to_v2(manifest)
Migrate ==
    /\ mig_pc = "input"
    /\ mig_out' = Some(migrate_v1_to_v2(mig_in))
    /\ mig_pc' = "once"
    /\ UNCHANGED <<mig_in, mig_out2, notes, load_vars, ext_vars, enr_vars>>

\* migrate_v1_to_v2(migrated)
MigrateAgain ==
    /\ mig_pc = "once"
    /\ mig_out2' = Some(migrate_v1_to_v2(unwrap(mig_out)))
    /\ mig_pc' = "twice"
    /\ UNCHANGED <<mig_in, mig_out, notes, load_vars, ext_vars, enr_vars>>

NextMigrate == Migrate \/ MigrateAgain

SpecMigrate == InitMigrate /\ [][NextMigrate]_vars

---------------------------------------------------------------------------
(* Properties of the migration *)

LegacyBreaking(compat) ==
    compat.binary_breaking = Some(TRUE) \/ compat.source_breaking = Some(TRUE)

\* an entry the migration rules have nothing to do on
EntryNormalized(e) ==
    /\ ~is_empty(e.anchor.hunk_id)
    /\ is_some(e.compatibility) =>
          LET c == unwrap(e.compatibility) IN
          /\ is_some(c.deprecations)
          /\ is_some(c.migrations)
          /\ LegacyBreaking(c) => c.breaking

ManifestNormalized(m) ==
    \A i \in 1..Len(m.entries) : EntryNormalized(m.entries[i])

\* C6: migration is idempotent: migrating the migrated manifest again returns
\* a manifest equal to it, for every input manifest.
C6_MigrateIdempotent ==
    mig_pc = "twice" => unwrap(mig_out2) = unwrap(mig_out)

\* a legacy manifest the first migration changed in an entry, migrated twice
C6_Witness ==
    /\ mig_pc = "twice"
    /\ mig_in.schema_version = SCHEMA_VERSION_1_0
    /\ unwrap(mig_out).entries # mig_in.entries

\* C7 as stated: migrate_v1_to_v2 returns every manifest of the current
\* schema version unchanged.
C7_CurrentUnchanged ==
    (mig_pc = "once" /\ mig_in.schema_version = SCHEMA_VERSION_CURRENT)
        => unwrap(mig_out) = mig_in

\* C7 amended: migrate_v1_to_v2 returns a manifest of the current schema
\* version unchanged exactly when every entry has a non-empty hunk id and
\* every compatibility block has deprecations and migrations set and has
\* breaking true whenever a legacy breaking flag is true.
C7_CurrentUnchangedIffNormalized ==
    (mig_pc = "once" /\ mig_in.schema_version = SCHEMA_VERSION_CURRENT)
        => (unwrap(mig_out) = mig_in <=> ManifestNormalized(mig_in))

\* a normalized current manifest with a compatibility block came back unchanged
C7_Witness ==
    /\ mig_pc = "once"
    /\ mig_in.schema_version = SCHEMA_VERSION_CURRENT
    /\ ManifestNormalized(mig_in)
    /\ \E i \in 1..Len(mig_in.entries) : is_some(mig_in.entries[i].compatibility)
    /\ unwrap(mig_out) = mig_in

\* C8: after the migration the schema version is current, every entry whose
\* hunk id was empty has hunk id H#0, every compatibility block has
\* deprecations and migrations set (empty where they were absent), and every
\* block with a true legacy binaryBreaking or sourceBreaking has breaking true.
C8_MigrateResult ==
    mig_pc = "once" =>
        LET out == unwrap(mig_out) IN
        /\ out.schema_version = SCHEMA_VERSION_CURRENT
        /\ Len(out.entries) = Len(mig_in.entries)
        /\ \A i \in 1..Len(mig_in.entries) :
              LET e == mig_in.entries[i]
                  f == out.entries[i] IN
              /\ is_empty(e.anchor.hunk_id) => f.anchor.hunk_id = HUNK_DEFAULT
              /\ is_some(e.compatibility) =>
                    /\ is_some(f.compatibility)
                    /\ LET c == unwrap(e.compatibility)
                           d == unwrap(f.compatibility) IN
                       /\ is_some(d.deprecations)
                       /\ is_some(d.migrations)
                       /\ is_none(c.deprecations) => d.deprecations = Some(<<>>)
                       /\ is_none(c.migrations) => d.migrations = Some(<<>>)
                       /\ LegacyBreaking(c) => d.breaking = TRUE

\* a legacy entry with an empty hunk id, no lists, breaking false and only
\* sourceBreaking true has been migrated
C8_Witness ==
    /\ mig_pc = "once"
    /\ \E i \in 1..Len(mig_in.entries) :
          LET e == mig_in.entries[i] IN
          /\ is_empty(e.anchor.hunk_id)
          /\ is_some(e.compatibility)
          /\ LET c == unwrap(e.compatibility) IN
             /\ is_none(c.deprecations)
             /\ is_none(c.migrations)
             /\ ~c.breaking
             /\ c.source_breaking = Some(TRUE)
             /\ c.binary_breaking # Some(TRUE)

\* an entry with the two fields the migration may write blanked out
EntryFrame(e) ==
    [e EXCEPT !.anchor.hunk_id = <<>>, !.compatibility = None]

\* C9: the migration changes nothing else: commit, globalIntent, the number
\* and order of entries, every non-empty hunk id, every already-set
\* deprecations/migrations list, the legacy fields and every other entry field
\* are unchanged, and a true `breaking` stays true.
C9_MigrateFrame ==
    mig_pc = "once" =>
        LET out == unwrap(mig_out) IN
        /\ out.commit = mig_in.commit
        /\ out.global_intent = mig_in.global_intent
        /\ Len(out.entries) = Len(mig_in.entries)
        /\ \A i \in 1..Len(mig_in.entries) :
              LET e == mig_in.entries[i]
                  f == out.entries[i] IN
              /\ EntryFrame(f) = EntryFrame(e)
              /\ ~is_empty(e.anchor.hunk_id) => f.anchor.hunk_id = e.anchor.hunk_id
              /\ is_some(f.compatibility) = is_some(e.compatibility)
              /\ is_some(e.compatibility) =>
                    LET c == unwrap(e.compatibility)
                        d == unwrap(f.compatibility) IN
                    /\ d.binary_breaking = c.binary_breaking
                    /\ d.source_breaking = c.source_breaking
                    /\ d.data_model_migration = c.data_model_migration
                    /\ is_some(c.deprecations) => d.deprecations = c.deprecations
                    /\ is_some(c.migrations) => d.migrations = c.migrations
                    /\ c.breaking => d.breaking
                    /\ ~LegacyBreaking(c) => d.breaking = c.breaking

\* a two-entry manifest with a global intent, a non-empty hunk id and a
\* compatibility block with set lists and legacy fields has been migrated
C9_Witness ==
    /\ mig_pc = "once"
    /\ Len(mig_in.entries) = 2
    /\ is_some(mig_in.global_intent)
    /\ \E i \in 1..2 :
          LET e == mig_in.entries[i] IN
          /\ ~is_empty(e.anchor.hunk_id)
          /\ is_some(e.compatibility)
          /\ LET c == unwrap(e.compatibility) IN
             /\ c.breaking
             /\ c.deprecations # None /\ c.deprecations # Some(<<>>)
             /\ c.migrations # None /\ c.migrations # Some(<<>>)
             /\ c.binary_breaking = Some(FALSE)
             /\ c.data_model_migration = Some(TRUE)
    /\ unwrap(mig_out) # mig_in

---------------------------------------------------------------------------
(* The store: saves, notes arriving from another repository, and loads *)

\* a compatibility block as gip 1.0 wrote it, and one as gip 2.0 writes it
LegacyCompat == Compatibility(FALSE, None, None, Some(TRUE), Some(FALSE), None)
CurrentCompat == Compatibility(TRUE, Some(<<>>), Some(<<>>), None, None, None)

StoreEntryLists ==
    {<<>>,
     <<MigEntry(1, <<>>, None)>>,
     <<MigEntry(1, <<>>, Some(LegacyCompat))>>,
     <<MigEntry(1, HUNK_1, Some(CurrentCompat))>>}

\* the manifests handed to save
StoreManifests ==
    {Manifest(v, COMMIT_OLD, None, es) :
        v \in SchemaVersions, es \in StoreEntryLists}

\* notes under refs/notes/gip that no save of this program wrote: text that is
\* not JSON, and a JSON object without the required key `commit`
ForeignNotes ==
    {NotJson,
     JsonText([schemaVersion |-> SCHEMA_VERSION_2_0, entries |-> <<>>])}

\* no migration is under test
IdleMigrate ==
    /\ mig_pc = "idle"
    /\ mig_in = Manifest(SCHEMA_VERSION_CURRENT, <<>>, None, <<>>)
    /\ mig_out = None
    /\ mig_out2 = None

InitStore ==
    /\ IdleMigrate
    /\ notes = NoNotes
    /\ IdleLoad
    /\ IdleEnrich
    /\ IdleExt

\* manifest::save(&manifest, commit_sha, None)
Save ==
    \E m \in StoreManifests, c \in CommitIds :
        /\ notes' = save(notes, m, c)
        /\ saved' = [saved EXCEPT ![c] = Some(m)]
        /\ overwritten' = [overwritten EXCEPT ![c] = is_some(notes[c])]
        /\ UNCHANGED <<mig_vars, load_sha, load_res, enr_vars, ext_vars>>

\* git::fetch_notes (git.rs 86-89): a note written elsewhere arrives
FetchNotes ==
    \E n \in ForeignNotes, c \in CommitIds :
        /\ notes' = add_note(notes, c, n)
        /\ saved' = [saved EXCEPT ![c] = None]
        /\ overwritten' = [overwritten EXCEPT ![c] = FALSE]
        /\ UNCHANGED <<mig_vars, load_sha, load_res, enr_vars, ext_vars>>

\* manifest::load(commit_sha, None)
Load ==
    \E c \in CommitIds :
        /\ load_sha' = Some(c)
        /\ load_res' = Some(load(notes, c))
        /\ UNCHANGED <<mig_vars, notes, saved, overwritten, enr_vars, ext_vars>>

NextStore == Save \/ FetchNotes \/ Load

SpecStore == InitStore /\ [][NextStore]_vars

\* the manifest the note of the last load declares, when it parses
LoadedNote == from_str(unwrap(notes[unwrap(load_sha)]))

\* C10: every manifest returned by Store.load has the current schema version,
\* whatever version string the stored record declares.
C10_LoadedVersionCurrent ==
    (is_some(load_res) /\ unwrap(load_res).ok)
        => unwrap(load_res).val.schema_version = SCHEMA_VERSION_CURRENT

\* what load makes of a manifest that save stored: load 33-38
normalized(m) == IF needs_migration(m) THEN migrate_v1_to_v2(m) ELSE m

\* C11: load(c) returns the migration-normalized manifest of the most recent
\* save(m, c): a later save under c replaces the earlier one and saves under
\* other commit ids leave what load(c) returns alone.
C11_LoadReturnsLastSave ==
    \A c \in CommitIds :
        is_some(saved[c]) => load(notes, c) = Ok(normalized(unwrap(saved[c])))

\* a load of SHA_OURS returned the migrated form of a legacy manifest whose
\* save replaced an earlier note, with another manifest saved under SHA_THEIRS
C11_Witness ==
    /\ load_sha = Some(SHA_OURS)
    /\ is_some(saved[SHA_OURS])
    /\ overwritten[SHA_OURS]
    /\ is_some(saved[SHA_THEIRS])
    /\ saved[SHA_THEIRS] # saved[SHA_OURS]
    /\ needs_migration(unwrap(saved[SHA_OURS]))
    /\ unwrap(saved[SHA_OURS]).entries # <<>>
    /\ load_res = Some(Ok(normalized(unwrap(saved[SHA_OURS]))))
    /\ load_res # Some(Ok(unwrap(saved[SHA_OURS])))

---------------------------------------------------------------------------
(* The pending manifest: save_pending and load_pending on .gip/pending.json *)

PendingLists == {<<>>, <<<<"x", " ", ">", " ", "0">>>>}
PendingContracts ==
    {Contract(i, o, pre, <<>>, <<>>) :
        i \in {None, Some(<<>>)}, o \in {None, Some(<<"u", "3", "2">>)},
        pre \in PendingLists}
        \cup {Contract(None, None, <<>>, post, err) :
                 post \in PendingLists, err \in PendingLists}
PendingDeltas ==
    {None, Some(SignatureDelta(<<"f", "(", ")">>, <<"f", "(", "x", ")">>))}
PendingBudgets ==
    {None, Some(PerfBudget(None, None)), Some(PerfBudget(Some(5), None)),
     Some(PerfBudget(Some(5), Some(0 - 2)))}
PendingCompat == {None, Some(LegacyCompat), Some(CurrentCompat)}

\* entries with every optional field absent and present
PendingEntries ==
    {[Entry(Anchor(<<"a", ".", "r", "s">>, <<"f">>, HUNK_1), CHANGE_MODIFY,
            <<"w", "h", "y">>, bc, c, se, compat, inh)
        EXCEPT !.signature_delta = d, !.perf_budget = b, !.tests_touched = tt] :
        bc \in {<<>>, <<BEHAVIOR_BUGFIX>>}, c \in PendingContracts,
        se \in PendingLists, compat \in PendingCompat, inh \in OptBool,
        d \in PendingDeltas, b \in PendingBudgets,
        tt \in {None, Some(<<>>)}}

\* the manifests handed to save_pending: no entry, one entry of
\* PendingEntries, or two entries
PendingManifests ==
    {Manifest(v, COMMIT_OLD, g, es) :
        v \in {SCHEMA_VERSION_CURRENT, <<>>}, g \in OptGlobalIntent,
        es \in {<<>>} \cup {<<e>> : e \in PendingEntries}
                 \cup {<<MigEntry(1, HUNK_1, None), MigEntry(2, <<>>, None)>>}}

InitPending ==
    /\ IdleMigrate
    /\ notes = NoNotes
    /\ IdleLoad
    /\ IdleEnrich
    /\ IdleFind
    /\ IdleOrch
    /\ IdleCmd
    /\ IdleCommit
    /\ pend_in \in PendingManifests
    /\ pend_file \in {None, Some(NotJson)}
    /\ pend_res = None

\* manifest::save_pending(&manifest, &gip_dir)
SavePending ==
    /\ pend_file' = save_pending(pend_in)
    /\ UNCHANGED <<but_pend_vars, pend_in, pend_res>>

\* manifest::load_pending(&gip_dir)
LoadPending ==
    /\ pend_res' = Some(load_pending(pend_file))
    /\ UNCHANGED <<but_pend_vars, pend_in, pend_file>>

NextPending == SavePending \/ LoadPending

SpecPending == InitPending /\ [][NextPending]_vars

\* C12: the canonical notation round-trips exactly: decoding the encoding of
\* a manifest yields that manifest, so load_pending after save_pending(m)
\* returns m; absent optional fields and empty lists are left out of the text.
C12_CanonicalRoundTrip ==
    /\ from_str(to_string_pretty(pend_in)) = Ok(pend_in)
    /\ (pend_file = save_pending(pend_in) /\ is_some(pend_res)
            /\ unwrap(pend_res).ok)
        => pend_res = Some(Ok(pend_in))
    /\ pend_file = save_pending(pend_in)
        => load_pending(pend_file) = Ok(pend_in)
    /\ \A i \in 1..Len(pend_in.entries) :
          LET e == pend_in.entries[i]
              o == ser_manifest(pend_in)["entries"][i]
          IN /\ is_empty(e.side_effects) <=> ~has(o, "sideEffects")
             /\ is_empty(e.contract.preconditions)
                   <=> ~has(o["contract"], "preconditions")
             /\ is_empty(e.contract.postconditions)
                   <=> ~has(o["contract"], "postconditions")
             /\ is_empty(e.contract.error_model)
                   <=> ~has(o["contract"], "errorModel")
             /\ is_none(e.compatibility) <=> ~has(o, "compatibility")

\* load_pending returned a saved manifest whose entry has neither side
\* effects nor conditions and has a performance budget with one field set
C12_Witness ==
    /\ pend_file = save_pending(pend_in)
    /\ pend_res = Some(Ok(pend_in))
    /\ Len(pend_in.entries) = 1
    /\ is_empty(pend_in.entries[1].side_effects)
    /\ pend_in.entries[1].contract = NoContract
    /\ is_none(pend_in.global_intent)
    /\ pend_in.entries[1].perf_budget = Some(PerfBudget(Some(5), None))
    /\ is_some(pend_in.entries[1].signature_delta)

---------------------------------------------------------------------------
(* Inputs of the rewriter: conflicted files and the notes of the two sides *)

\* the largest number of segments a file is made of
MaxSegments == 2

LINE_START == <<"<", "<", "<", "<", "<", "<", "<", " ", "H", "E", "A", "D">>
LINE_MIDDLE == <<"=", "=", "=", "=", "=", "=", "=">>
LINE_END == <<">", ">", ">", ">", ">", ">", ">", " ", "f", "e", "a", "t", "u", "r", "e">>
LINE_BASE == <<"|", "|", "|", "|", "|", "|", "|", " ", "b", "a", "s", "e">>
LINE_MAIN == <<"f", "n", " ", "m", "a", "i", "n", "(", ")", " ", "{">>
LINE_CALL == <<" ", " ", " ", " ", "h", "e", "l", "p", "e", "r", "(", ")", ";">>
LINE_OTHER == <<" ", " ", " ", " ", "o", "t", "h", "e", "r", "(", ")", ";">>
LINE_QUOTED == <<"s", " ", "=", " ", "\"", "<", "<", "<", "<", "<", "<", "<", "\"">>

\* the pieces files are made of: a conflict region as git writes it, one in
\* diff3 style (with the base marker), single lines of code, and single
\* delimiter lines outside of any region
Segments ==
    {<<LINE_START, LINE_CALL, LINE_MIDDLE, LINE_OTHER, LINE_END>>,
     <<LINE_START, LINE_CALL, LINE_BASE, LINE_MIDDLE, LINE_END>>,
     <<LINE_MAIN>>,
     <<LINE_QUOTED>>,
     <<LINE_BASE>>,
     <<LINE_START>>,
     <<LINE_MIDDLE>>,
     <<LINE_END>>}

\* the line lists of n segments
RECURSIVE SegmentLists(_)
SegmentLists(n) ==
    IF n = 0 THEN {<<>>}
    ELSE {seg \o rest : seg \in Segments, rest \in SegmentLists(n - 1)}

FileLines == UNION {SegmentLists(n) : n \in 0..MaxSegments}

\* the text of a file: its lines, each ended by eol, the last one only when
\* the file has a final newline
render(ls, eol, final_newline) ==
    concat([i \in 1..Len(ls) |->
        ls[i] \o (IF i < Len(ls) \/ final_newline THEN eol ELSE <<>>)])

LF == <<"\n">>
CRLF == <<"\r", "\n">>

FileTexts ==
    {render(ls, LF, TRUE) : ls \in FileLines}
        \cup {render(ls, CRLF, TRUE) : ls \in FileLines}
        \cup {render(ls, LF, FALSE) : ls \in FileLines}

ENTRY_MAIN ==
    Entry(Anchor(<<"s", "r", "c", "/", "m", "a", "i", "n", ".", "r", "s">>, <<"m", "a", "i", "n">>, HUNK_1), CHANGE_MODIFY,
          <<"M", "a", "i", "n", " ", "c", "h", "a", "n", "g", "e", " ", "r", "a", "t", "i", "o", "n", "a", "l", "e">>, <<BEHAVIOR_REFACTOR>>,
          Contract(Some(<<<<"x", ":", " ", "i", "3", "2">>>>), Some(<<"i", "3", "2">>), <<<<"x", " ", ">", " ", "0">>>>,
                   <<<<"s", "u", "m">>>>, <<<<"n", "o", "n", "e">>>>),
          <<<<"l", "o", "g", "s">>>>,
          Some(Compatibility(TRUE, Some(<<>>), Some(<<<<"U", "p", "d", "a", "t", "e", " ", "c", "o", "n", "f", "i", "g">>>>),
                             None, None, None)),
          None)

\* anchored by base name only
ENTRY_HELPER ==
    Entry(Anchor(<<"m", "a", "i", "n", ".", "r", "s">>, <<"h", "e", "l", "p", "e", "r">>, <<"H", "#", "2">>), CHANGE_MODIFY,
          <<"h", "e", "l", "p", "e", "r", " ", "l", "o", "g", "i", "c">>, <<>>, NoContract, <<>>, None, None)

\* a rationale of three lines, the second a Markdown heading underline
ENTRY_LEGACY ==
    Entry(Anchor(<<"s", "r", "c", "/", "m", "a", "i", "n", ".", "r", "s">>, <<"m", "a", "i", "n">>, <<>>), CHANGE_MODIFY,
          <<"W", "h", "y", "\n", "=", "=", "=", "=", "=", "=", "=", "\n", "o", "l", "d", " ", "a", "p", "i">>, <<BEHAVIOR_BUGFIX>>, NoContract, <<>>,
          Some(LegacyCompat), None)

ENTRY_LIB ==
    Entry(Anchor(<<"s", "r", "c", "/", "l", "i", "b", ".", "r", "s">>, <<"r", "u", "n">>, HUNK_1), CHANGE_MODIFY,
          <<"l", "i", "b">>, <<BEHAVIOR_BUGFIX>>, NoContract, <<>>, None, None)

\* two entries for the file
MANIFEST_MAIN ==
    Manifest(SCHEMA_VERSION_2_0, <<"a", "b", "c", "1", "2", "3", "4">>, None, <<ENTRY_MAIN, ENTRY_HELPER>>)

\* written by gip 1.0: migrated on load
MANIFEST_LEGACY ==
    Manifest(SCHEMA_VERSION_1_0, <<"d", "e", "f", "5", "6", "7", "8">>, None, <<ENTRY_LEGACY>>)

\* no entry for the file, and a global intent
MANIFEST_FEATURE ==
    Manifest(SCHEMA_VERSION_2_0, <<"f", "e", "e", "1", "d", "e", "a">>,
             Some(GlobalIntent(<<BEHAVIOR_FEATURE>>, <<"F", "e", "a", "t", "u", "r", "e", " ", "c", "h", "a", "n", "g", "e", " ", "r", "a", "t", "i", "o", "n", "a", "l", "e">>)),
             <<ENTRY_LIB>>)

OursNotes ==
    {None, Some(to_string_pretty(MANIFEST_MAIN)),
     Some(to_string_pretty(MANIFEST_LEGACY))}

TheirsNotes ==
    {None, Some(NotJson), Some(to_string_pretty(MANIFEST_MAIN)),
     Some(to_string_pretty(MANIFEST_FEATURE))}

InitRewrite ==
    /\ IdleMigrate
    /\ IdleLoad
    /\ IdleExt
    /\ notes \in {[c \in CommitIds |-> IF c = SHA_OURS THEN o ELSE t] :
                     o \in OursNotes, t \in TheirsNotes}
    /\ wt_file \in {None} \cup {Some(text) : text \in FileTexts}
    /\ enr_pc = "start"
    /\ enr_content = <<>>
    /\ enr_ours = None
    /\ enr_theirs = None
    /\ enr_lines = <<>>
    /\ enr_idx = 0
    /\ enr_output = <<>>
    /\ enr_result = None
    /\ enr_written = FALSE
    /\ enr_blocks = <<>>
    /\ enr_passes = 0

---------------------------------------------------------------------------
(* enrich_conflict_markers(file_path, ours_sha, theirs_sha) on one file *)

FILE_PATH == <<"s", "r", "c", "/", "m", "a", "i", "n", ".", "r", "s">>

\* lines 42-44: the file does not exist
EnrichMissing ==
    /\ enr_pc = "start"
    /\ is_none(wt_file)
    /\ enr_result' = Some(Ok(FALSE))
    /\ enr_pc' = "done"
    /\ UNCHANGED <<mig_vars, notes, load_vars, ext_vars, enr_passes, wt_file, enr_content, enr_ours,
                   enr_theirs, enr_lines, enr_idx, enr_output, enr_written,
                   enr_blocks>>

\* lines 46-50: the text holds no CONFLICT_START
EnrichNoMarker ==
    /\ enr_pc = "start"
    /\ is_some(wt_file)
    /\ ~contains(unwrap(wt_file), CONFLICT_START)
    /\ enr_content' = unwrap(wt_file)
    /\ enr_result' = Some(Ok(FALSE))
    /\ enr_pc' = "done"
    /\ UNCHANGED <<mig_vars, notes, load_vars, ext_vars, enr_passes, wt_file, enr_ours, enr_theirs,
                   enr_lines, enr_idx, enr_output, enr_written, enr_blocks>>

\* manifest::load(sha, None).ok()
load_ok(ns, sha) ==
    LET r == load(ns, sha) IN IF r.ok THEN Some(r.val) ELSE None

\* lines 52-58: neither manifest loads
EnrichNoManifest ==
    /\ enr_pc = "start"
    /\ is_some(wt_file)
    /\ contains(unwrap(wt_file), CONFLICT_START)
    /\ is_none(load_ok(notes, SHA_OURS))
    /\ is_none(load_ok(notes, SHA_THEIRS))
    /\ enr_content' = unwrap(wt_file)
    /\ enr_result' = Some(Ok(FALSE))
    /\ enr_pc' = "done"
    /\ UNCHANGED <<mig_vars, notes, load_vars, ext_vars, enr_passes, wt_file, enr_ours, enr_theirs,
                   enr_lines, enr_idx, enr_output, enr_written, enr_blocks>>

\* lines 46-62: the loop is entered
EnrichBegin ==
    /\ enr_pc = "start"
    /\ is_some(wt_file)
    /\ contains(unwrap(wt_file), CONFLICT_START)
    /\ is_some(load_ok(notes, SHA_OURS)) \/ is_some(load_ok(notes, SHA_THEIRS))
    /\ enr_content' = unwrap(wt_file)
    /\ enr_ours' = load_ok(notes, SHA_OURS)
    /\ enr_theirs' = load_ok(notes, SHA_THEIRS)
    /\ enr_output' = <<>>
    /\ enr_lines' = str_lines(unwrap(wt_file))
    /\ enr_idx' = 0
    /\ enr_pc' = "loop"
    /\ UNCHANGED <<mig_vars, notes, load_vars, ext_vars, enr_passes, wt_file, enr_result,
                   enr_written, enr_blocks>>

\* the block pushed at line index idx, recorded when it is not empty
record_block(blocks, idx, side, text) ==
    IF text = <<>> THEN blocks
    ELSE Append(blocks, [at |-> idx, side |-> side, text |-> text])

\* lines 67-78 and 102: a line starting with CONFLICT_START
LineStart ==
    /\ enr_pc = "loop"
    /\ enr_idx < Len(enr_lines)
    /\ LET line == enr_lines[enr_idx + 1]
           block == ours_block(enr_ours, FILE_PATH, enr_lines, enr_idx) IN
       /\ starts_with(line, CONFLICT_START)
       /\ enr_output' = enr_output \o on_conflict_start(line, block)
       /\ enr_blocks' = record_block(enr_blocks, enr_idx, "ours", block)
    /\ enr_idx' = enr_idx + 1
    /\ UNCHANGED <<mig_vars, notes, load_vars, ext_vars, enr_passes, wt_file, enr_pc, enr_content,
                   enr_ours, enr_theirs, enr_lines, enr_result, enr_written>>

\* lines 79-81 and 102: a line starting with CONFLICT_MIDDLE
LineMiddle ==
    /\ enr_pc = "loop"
    /\ enr_idx < Len(enr_lines)
    /\ LET line == enr_lines[enr_idx + 1] IN
       /\ ~starts_with(line, CONFLICT_START)
       /\ starts_with(line, CONFLICT_MIDDLE)
       /\ enr_output' = enr_output \o emit(line)
    /\ enr_idx' = enr_idx + 1
    /\ UNCHANGED <<mig_vars, notes, load_vars, ext_vars, enr_passes, wt_file, enr_pc, enr_content,
                   enr_ours, enr_theirs, enr_lines, enr_result, enr_written,
                   enr_blocks>>

\* lines 82-97 and 102: a line starting with CONFLICT_END
LineEnd ==
    /\ enr_pc = "loop"
    /\ enr_idx < Len(enr_lines)
    /\ LET line == enr_lines[enr_idx + 1]
           block == theirs_block(enr_theirs, FILE_PATH, enr_lines, enr_idx) IN
       /\ ~starts_with(line, CONFLICT_START)
       /\ ~starts_with(line, CONFLICT_MIDDLE)
       /\ starts_with(line, CONFLICT_END)
       /\ enr_output' = enr_output \o on_conflict_end(line, block)
       /\ enr_blocks' = record_block(enr_blocks, enr_idx, "theirs", block)
    /\ enr_idx' = enr_idx + 1
    /\ UNCHANGED <<mig_vars, notes, load_vars, ext_vars, enr_passes, wt_file, enr_pc, enr_content,
                   enr_ours, enr_theirs, enr_lines, enr_result, enr_written>>

\* lines 98-102: any other line
LineOther ==
    /\ enr_pc = "loop"
    /\ enr_idx < Len(enr_lines)
    /\ LET line == enr_lines[enr_idx + 1] IN
       /\ ~starts_with(line, CONFLICT_START)
       /\ ~starts_with(line, CONFLICT_MIDDLE)
       /\ ~starts_with(line, CONFLICT_END)
       /\ enr_output' = enr_output \o emit(line)
    /\ enr_idx' = enr_idx + 1
    /\ UNCHANGED <<mig_vars, notes, load_vars, ext_vars, enr_passes, wt_file, enr_pc, enr_content,
                   enr_ours, enr_theirs, enr_lines, enr_result, enr_written,
                   enr_blocks>>

\* lines 105-106: fs::write(path, output); Ok(true)
EnrichWrite ==
    /\ enr_pc = "loop"
    /\ enr_idx = Len(enr_lines)
    /\ wt_file' = Some(enr_output)
    /\ enr_written' = TRUE
    /\ enr_passes' = enr_passes + 1
    /\ enr_result' = Some(Ok(TRUE))
    /\ enr_pc' = "done"
    /\ UNCHANGED <<mig_vars, notes, load_vars, ext_vars, enr_content, enr_ours,
                   enr_theirs, enr_lines, enr_idx, enr_output, enr_blocks>>

NextRewrite ==
    \/ EnrichMissing
    \/ EnrichNoMarker
    \/ EnrichNoManifest
    \/ EnrichBegin
    \/ LineStart
    \/ LineMiddle
    \/ LineEnd
    \/ LineOther
    \/ EnrichWrite

SpecRewrite == InitRewrite /\ [][NextRewrite]_vars

---------------------------------------------------------------------------
(* Properties of the rewriter *)

\* the call returned after writing the file
Rewritten == enr_pc = "done" /\ enr_written

\* the lines of the file as it was read, and as it is now
InLines == str_lines(enr_content)
OutLines == str_lines(unwrap(wt_file))

\* a is b with some elements left out: each element of a is matched to the
\* first equal element of b after the match of the one before
RECURSIVE is_subsequence_from(_, _, _, _)
is_subsequence_from(a, i, b, j) ==
    IF i > Len(a) THEN TRUE
    ELSE IF j > Len(b) THEN FALSE
    ELSE IF a[i] = b[j] THEN is_subsequence_from(a, i + 1, b, j + 1)
    ELSE is_subsequence_from(a, i, b, j + 1)

is_subsequence(a, b) == is_subsequence_from(a, 1, b, 1)

\* the number of lines of the first n blocks pushed
RECURSIVE block_line_count(_, _)
block_line_count(blocks, n) ==
    IF n = 0 THEN 0
    ELSE Len(str_lines(blocks[n].text)) + block_line_count(blocks, n - 1)

is_delimiter_line(line) ==
    \/ starts_with(line, CONFLICT_START)
    \/ starts_with(line, CONFLICT_MIDDLE)
    \/ starts_with(line, CONFLICT_END)

\* C1: in a rewritten file every original line, the delimiter lines with
\* their labels included, is present with the same text and in the original
\* order, and every other line of the output is a line of an inserted block.
C1_OriginalLinesKept ==
    Rewritten =>
        LET in == InLines
            out == OutLines IN
        /\ is_subsequence(in, out)
        /\ Len(out) = Len(in) + block_line_count(enr_blocks, Len(enr_blocks))
        /\ \A i \in 1..Len(in) :
              is_delimiter_line(in[i]) => \E j \in i..Len(out) : out[j] = in[i]

\* a file with a labelled end delimiter has been rewritten with a block after
\* the ours delimiter and a block before the end delimiter
C1_Witness ==
    /\ Rewritten
    /\ \E i \in 1..Len(InLines) : InLines[i] = LINE_END
    /\ \E b \in 1..Len(enr_blocks) : enr_blocks[b].side = "ours"
    /\ \E b \in 1..Len(enr_blocks) : enr_blocks[b].side = "theirs"
    /\ unwrap(wt_file) # enr_content

\* no line of the text begins with the ours delimiter
NoStartLine(text) ==
    \A i \in 1..Len(str_lines(text)) :
        ~starts_with(str_lines(text)[i], CONFLICT_START)

\* neither side's manifest loads
NeitherLoads == ~load(notes, SHA_OURS).ok /\ ~load(notes, SHA_THEIRS).ok

\* C2: when no line of the file begins with the ours delimiter, or neither
\* manifest loads, the file is not written, keeps its text, and the call
\* returns false.
C2_UntouchedWithoutStartLine ==
    (enr_pc = "done" /\ is_some(wt_file)
        /\ (NoStartLine(enr_content) \/ NeitherLoads))
    => /\ ~enr_written
       /\ wt_file = Some(enr_content)
       /\ enr_result = Some(Ok(FALSE))

\* the role of each line from line i on, for the cycle OUTSIDE ->
\* INSIDE_OURS -> INSIDE_THEIRS -> OUTSIDE entered in state st: "start",
\* "middle" and "end" for the delimiter lines that make a transition,
\* "stray" for a delimiter line met in another state, "text" otherwise
RECURSIVE region_roles(_, _, _)
region_roles(ls, i, st) ==
    IF i > Len(ls) THEN <<>>
    ELSE LET line == ls[i]
             role == IF ~is_delimiter_line(line) THEN "text"
                     ELSE IF st = "OUTSIDE" /\ starts_with(line, CONFLICT_START)
                          THEN "start"
                     ELSE IF st = "INSIDE_OURS" /\ starts_with(line, CONFLICT_MIDDLE)
                          THEN "middle"
                     ELSE IF st = "INSIDE_THEIRS" /\ starts_with(line, CONFLICT_END)
                          THEN "end"
                     ELSE "stray"
             next == CASE role = "start" -> "INSIDE_OURS"
                       [] role = "middle" -> "INSIDE_THEIRS"
                       [] role = "end" -> "OUTSIDE"
                       [] OTHER -> st IN
         <<role>> \o region_roles(ls, i + 1, next)

Roles(ls) == region_roles(ls, 1, "OUTSIDE")

\* the number of lines with role r
CountRole(roles, r) == Cardinality({i \in 1..Len(roles) : roles[i] = r})

\* the lines are text and complete conflict regions only
WellFormed(roles) ==
    /\ CountRole(roles, "stray") = 0
    /\ CountRole(roles, "start") = CountRole(roles, "end")

\* the block pushed at the line of index idx (from 0)
BlockAt(idx) ==
    LET b == CHOOSE b \in 1..Len(enr_blocks) : enr_blocks[b].at = idx IN
    enr_blocks[b].text

\* text is a block built from the manifest for the side at line index idx,
\* over some window of the lines right before it
BuiltFrom(text, side, description, manifest, ls, idx) ==
    \E a \in 0..idx :
        text = format_enriched_marker(side, description, manifest, FILE_PATH,
                                      Some(SubSeq(ls, a + 1, idx)))

\* what line i of a well-formed file is rewritten to
ExpectedPiece(ls, roles, i) ==
    IF roles[i] = "start" THEN ls[i] \o <<"\n">> \o BlockAt(i - 1)
    ELSE IF roles[i] = "end" THEN BlockAt(i - 1) \o ls[i] \o <<"\n">>
    ELSE ls[i] \o <<"\n">>

\* C3: a file of k >= 1 well-formed regions, rewritten with both manifests
\* loaded, holds for each region in order the ours delimiter, one block built
\* from the ours manifest, the ours body, the separator and the theirs body
\* unchanged, one block built from the theirs manifest and the end
\* delimiter: k ours blocks and k theirs blocks in all.
C3_BlocksPerRegion ==
    (Rewritten /\ is_some(enr_ours) /\ is_some(enr_theirs)) =>
        LET in == InLines
            roles == Roles(in)
            k == CountRole(roles, "end") IN
        (WellFormed(roles) /\ k >= 1) =>
           /\ Cardinality({b \in 1..Len(enr_blocks) :
                              enr_blocks[b].side = "ours"}) = k
           /\ Cardinality({b \in 1..Len(enr_blocks) :
                              enr_blocks[b].side = "theirs"}) = k
           /\ \A i \in 1..Len(in) :
                 /\ roles[i] = "start" =>
                       \E b \in 1..Len(enr_blocks) :
                           /\ enr_blocks[b].at = i - 1
                           /\ enr_blocks[b].side = "ours"
                           /\ BuiltFrom(enr_blocks[b].text, HEAD_LABEL,
                                        YOUR_CHANGES, unwrap(enr_ours), in, i - 1)
                 /\ roles[i] = "end" =>
                       \E b \in 1..Len(enr_blocks) :
                           /\ enr_blocks[b].at = i - 1
                           /\ enr_blocks[b].side = "theirs"
                           /\ BuiltFrom(enr_blocks[b].text,
                                        trim(SubSeq(in[i], Len(CONFLICT_END) + 1,
                                                    Len(in[i]))),
                                        THEIR_CHANGES, unwrap(enr_theirs), in, i - 1)
           /\ unwrap(wt_file) =
                 concat([i \in 1..Len(in) |-> ExpectedPiece(in, roles, i)])

\* a file of two regions has been rewritten with both manifests loaded
C3_Witness ==
    /\ Rewritten
    /\ is_some(enr_ours)
    /\ is_some(enr_theirs)
    /\ WellFormed(Roles(InLines))
    /\ CountRole(Roles(InLines), "end") = 2
    /\ Len(enr_blocks) = 4

SENTINEL == <<"|", "|", "|">>

\* C4: every line the rewriter inserts begins with the sentinel ||| and none
\* begins with one of the three delimiters.
C4_InsertedLinesPrefixed ==
    Rewritten =>
        \A b \in 1..Len(enr_blocks) :
            LET ls == str_lines(enr_blocks[b].text) IN
            \A i \in 1..Len(ls) :
                /\ starts_with(ls[i], SENTINEL)
                /\ ~is_delimiter_line(ls[i])

NotSentinelLine(line) == ~starts_with(line, SENTINEL)

\* C5: the rewritten file without its lines beginning with ||| is the
\* original file, line by line.
C5_StripRestoresOriginal ==
    Rewritten => SelectSeq(OutLines, NotSentinelLine) = InLines

\* the first line of every block (merge.rs 118)
BLOCK_HEADER == <<"|", "|", "|", " ", "G", "i", "p", " ", "C", "O", "N", "T", "E", "X", "T", " ", "(">>

\* the positions of the lines the loop treats as ours delimiters and as
\* end delimiters
StartLines(ls) == {i \in 1..Len(ls) : starts_with(ls[i], CONFLICT_START)}
EndLines(ls) ==
    {i \in 1..Len(ls) :
        /\ ~starts_with(ls[i], CONFLICT_START)
        /\ ~starts_with(ls[i], CONFLICT_MIDDLE)
        /\ starts_with(ls[i], CONFLICT_END)}

\* the positions (from 1) of the lines that got a block of the side
BlockLines(side) ==
    {enr_blocks[b].at + 1 : b \in {k \in 1..Len(enr_blocks) : enr_blocks[k].side = side}}

\* C18: a manifest that does not load (no note, or a note that does not
\* parse) is no context for its side and no error: when exactly one of the
\* two loads, a conflicted file is rewritten and counted, with a block at
\* every delimiter of the side that loaded and none at the other side's.
C18_OneSideLoads ==
    (enr_pc = "done" /\ is_some(wt_file) /\ ~NoStartLine(enr_content)
        /\ load(notes, SHA_OURS).ok # load(notes, SHA_THEIRS).ok)
    => LET in == InLines
           out == OutLines
           ours == load(notes, SHA_OURS).ok
           theirs == load(notes, SHA_THEIRS).ok IN
       /\ enr_result = Some(Ok(TRUE))
       /\ enr_written
       /\ BlockLines("ours") = (IF ours THEN StartLines(in) ELSE {})
       /\ BlockLines("theirs") = (IF theirs THEN EndLines(in) ELSE {})
       /\ \A b \in 1..Len(enr_blocks) : starts_with(enr_blocks[b].text, BLOCK_HEADER)
       /\ Cardinality({j \in 1..Len(out) : starts_with(out[j], BLOCK_HEADER)})
             = Cardinality(IF ours THEN StartLines(in) ELSE EndLines(in))

\* the theirs note does not parse: the region got its ours block only
C18_Witness ==
    /\ Rewritten
    /\ notes[SHA_THEIRS] = Some(NotJson)
    /\ load(notes, SHA_OURS).ok
    /\ \E i \in 1..Len(InLines) : InLines[i] = LINE_END
    /\ Len(enr_blocks) = 1
    /\ enr_blocks[1].side = "ours"

---------------------------------------------------------------------------
(* find_entry (merge.rs 195-246) on manifests, paths and context windows *)

\* the largest number of entries of a manifest handed to find_entry
MaxFindEntries == 2
\* the largest number of lines of a context window
MaxWindow == 2

\* anchored in another directory to a file of the same name
ENTRY_VENDOR ==
    Entry(Anchor(<<"v", "e", "n", "d", "o", "r", "/", "m", "a", "i", "n", ".", "r", "s">>, <<"m", "a", "i", "n">>, HUNK_1), CHANGE_MODIFY,
          <<"v", "e", "n", "d", "o", "r", "e", "d">>, <<BEHAVIOR_BUGFIX>>, NoContract, <<>>, None, None)

FindEntryPool == {ENTRY_MAIN, ENTRY_HELPER, ENTRY_LIB, ENTRY_VENDOR}

RECURSIVE SeqsUpTo(_, _)
SeqsUpTo(S, n) ==
    IF n = 0 THEN {<<>>}
    ELSE LET shorter == SeqsUpTo(S, n - 1) IN
         shorter \cup {Append(q, x) : q \in shorter, x \in S}

FindManifests ==
    {Manifest(SCHEMA_VERSION_2_0, COMMIT_OLD, None, es) :
        es \in SeqsUpTo(FindEntryPool, MaxFindEntries)}

FindPaths == {<<"s", "r", "c", "/", "m", "a", "i", "n", ".", "r", "s">>, <<"m", "a", "i", "n", ".", "r", "s">>, <<"s", "r", "c", "/", "l", "i", "b", ".", "r", "s">>, <<"s", "r", "c", "/", "u", "t", "i", "l", ".", "r", "s">>}

\* a call of main indented by two, and a line naming both symbols
LINE_MAIN_CALL == <<" ", " ", "m", "a", "i", "n", "(", ")", ";">>
LINE_HELPER_DEF == <<"f", "n", " ", "h", "e", "l", "p", "e", "r", "(", ")", " ", "{">>
LINE_BOTH == <<" ", " ", " ", " ", "h", "e", "l", "p", "e", "r", "(", ")", ";", " ", "m", "a", "i", "n", "(", ")", ";">>

WindowLines ==
    {LINE_MAIN, LINE_CALL, LINE_OTHER, LINE_MAIN_CALL, LINE_HELPER_DEF, LINE_BOTH}

FindContexts == {None} \cup {Some(w) : w \in SeqsUpTo(WindowLines, MaxWindow)}

InitFind ==
    /\ IdleMigrate
    /\ notes = NoNotes
    /\ IdleLoad
    /\ IdleEnrich
    /\ IdlePending
    /\ IdleOrch
    /\ IdleCmd
    /\ IdleCommit
    /\ fe_manifest \in FindManifests
    /\ fe_path \in FindPaths
    /\ fe_context \in FindContexts
    /\ fe_res = None
    /\ fm_block = None

\* find_entry(manifest, file_path, context)
FindEntry ==
    /\ fe_res = None
    /\ fe_res' = Some(find_entry(fe_manifest, fe_path, fe_context))
    /\ UNCHANGED <<but_find_vars, fe_manifest, fe_path, fe_context, fm_block>>

NextFind == FindEntry

SpecFind == InitFind /\ [][NextFind]_vars

\* the positions of the entries anchored to the file or to a file of its
\* base name
Candidates ==
    {i \in 1..Len(fe_manifest.entries) :
        LET f == fe_manifest.entries[i].anchor.file IN
        f = fe_path \/ (is_some(file_name(f)) /\ file_name(f) = file_name(fe_path))}

\* the positions of the window lines that contain a candidate's symbol
MatchingLines(cands) ==
    IF is_none(fe_context) THEN {}
    ELSE {j \in 1..Len(unwrap(fe_context)) :
            \E i \in cands :
                contains(unwrap(fe_context)[j], fe_manifest.entries[i].anchor.symbol)}

\* C13: find_entry returns none exactly when no entry is anchored to the
\* file or to a file of the same base name, and an entry it returns is one
\* of these candidates.
C13_NoneIffNoCandidate ==
    is_some(fe_res) =>
        LET r == unwrap(fe_res) cands == Candidates IN
        /\ is_none(r) <=> cands = {}
        /\ is_some(r) => \E i \in cands : unwrap(r) = fe_manifest.entries[i]

\* src/main.rs resolved through an entry anchored to main.rs by name only
C13_Witness ==
    /\ fe_path = <<"s", "r", "c", "/", "m", "a", "i", "n", ".", "r", "s">>
    /\ fe_manifest.entries = <<ENTRY_LIB, ENTRY_HELPER>>
    /\ fe_res = Some(Some(ENTRY_HELPER))

\* C14: when a line of the window contains a candidate's symbol, the entry
\* returned is a candidate whose symbol is on the matching line of least
\* indentation, the one nearest the conflict among those of that indentation.
C14_LeastIndentedMatch ==
    is_some(fe_res) =>
        LET cands == Candidates
            ms == MatchingLines(cands) IN
        ms # {} =>
            LET w == unwrap(fe_context)
                least == CHOOSE j \in ms : \A k \in ms :
                            leading_whitespace(w[j]) <= leading_whitespace(w[k])
                best == CHOOSE j \in ms :
                            /\ leading_whitespace(w[j]) = leading_whitespace(w[least])
                            /\ \A k \in ms :
                                  leading_whitespace(w[k]) = leading_whitespace(w[least])
                                      => k <= j
                r == unwrap(fe_res) IN
            /\ is_some(r)
            /\ \E i \in cands :
                  /\ unwrap(r) = fe_manifest.entries[i]
                  /\ contains(w[best], fe_manifest.entries[i].anchor.symbol)

\* the call `    helper();` under `fn main() {` resolves to main
C14_Witness ==
    /\ fe_path = <<"s", "r", "c", "/", "m", "a", "i", "n", ".", "r", "s">>
    /\ fe_manifest.entries = <<ENTRY_HELPER, ENTRY_MAIN>>
    /\ fe_context = Some(<<LINE_MAIN, LINE_CALL>>)
    /\ fe_res = Some(Some(ENTRY_MAIN))

\* C15: with candidates and no window, or no line of the window containing
\* a candidate's symbol, find_entry returns the first candidate in the
\* order of the manifest's entries.
C15_FallbackFirstCandidate ==
    is_some(fe_res) =>
        LET cands == Candidates IN
        (cands # {} /\ MatchingLines(cands) = {}) =>
            unwrap(fe_res)
                = Some(fe_manifest.entries[CHOOSE i \in cands : \A k \in cands : i <= k])

\* a window without any symbol of the two candidates, behind a first entry
\* for another file
C15_Witness ==
    /\ fe_path = <<"s", "r", "c", "/", "m", "a", "i", "n", ".", "r", "s">>
    /\ fe_manifest.entries = <<ENTRY_LIB, ENTRY_HELPER>>
    /\ fe_context = Some(<<LINE_OTHER>>)
    /\ fe_res = Some(Some(ENTRY_HELPER))

\* the positions of the entries anchored to the whole path
ExactCandidates ==
    {i \in Candidates : fe_manifest.entries[i].anchor.file = fe_path}

\* C29: an entry anchored to the whole path has no priority over one that
\* only shares the base name: when no symbol matches and the first candidate
\* of the manifest shares only the base name, that candidate is returned,
\* whatever entries anchored to the whole path follow it.
C29_NoExactPathPriority ==
    is_some(fe_res) =>
        LET cands == Candidates
            exact == ExactCandidates IN
        (exact # {} /\ MatchingLines(cands) = {}) =>
            \A i \in cands \ exact :
                (\A k \in cands : i <= k) =>
                    /\ unwrap(fe_res) = Some(fe_manifest.entries[i])
                    /\ unwrap(unwrap(fe_res)).anchor.file # fe_path

\* vendor/main.rs is listed before src/main.rs and is returned for
\* src/main.rs
C29_Witness ==
    /\ fe_path = <<"s", "r", "c", "/", "m", "a", "i", "n", ".", "r", "s">>
    /\ fe_manifest.entries = <<ENTRY_VENDOR, ENTRY_MAIN>>
    /\ fe_context = Some(<<LINE_OTHER>>)
    /\ fe_res = Some(Some(ENTRY_VENDOR))

---------------------------------------------------------------------------
(* format_enriched_marker (merge.rs 109-193) on its own                   *)

\* an entry that leaves its rationale and behaviour class to the manifest
ENTRY_INHERIT ==
    Entry(Anchor(FILE_PATH, <<"m", "a", "i", "n">>, HUNK_1), CHANGE_MODIFY, <<>>, <<>>,
          NoContract, <<>>, None, Some(TRUE))

GLOBAL_INTENT == GlobalIntent(<<BEHAVIOR_FEATURE, BEHAVIOR_REFACTOR>>, <<"R", "e", "w", "o", "r", "k", " ", "l", "o", "g", "i", "n">>)

MarkerEntryPool == {ENTRY_INHERIT, ENTRY_MAIN, ENTRY_HELPER, ENTRY_LIB}

MarkerManifests ==
    {Manifest(SCHEMA_VERSION_2_0, COMMIT_OLD, gi, es) :
        gi \in {None, Some(GLOBAL_INTENT)},
        es \in SeqsUpTo(MarkerEntryPool, MaxFindEntries)}

MarkerContexts == {None, Some(<<LINE_MAIN, LINE_CALL>>), Some(<<LINE_OTHER>>)}

InitMarker ==
    /\ IdleMigrate
    /\ notes = NoNotes
    /\ IdleLoad
    /\ IdleEnrich
    /\ IdlePending
    /\ IdleOrch
    /\ IdleCmd
    /\ IdleCommit
    /\ fe_manifest \in MarkerManifests
    /\ fe_path \in FindPaths
    /\ fe_context \in MarkerContexts
    /\ fe_res = None
    /\ fm_block = None

\* format_enriched_marker("HEAD", "Your changes", manifest, file_path,
\* context), with the entry it resolved
FormatMarker ==
    /\ fm_block = None
    /\ fe_res' = Some(find_entry(fe_manifest, fe_path, fe_context))
    /\ fm_block' = Some(format_enriched_marker(HEAD_LABEL, YOUR_CHANGES,
                                               fe_manifest, fe_path, fe_context))
    /\ UNCHANGED <<but_find_vars, fe_manifest, fe_path, fe_context>>

NextMarker == FormatMarker

SpecMarker == InitMarker /\ [][NextMarker]_vars

\* the lines of the block
MarkerLines == str_lines(unwrap(fm_block))

\* the two lines every block begins with
HeaderLines ==
    <<<<"|", "|", "|", " ", "G", "i", "p", " ", "C", "O", "N", "T", "E", "X", "T", " ", "(", "H", "E", "A", "D", " ", "-", " ", "Y", "o", "u", "r", " ", "c", "h", "a", "n", "g", "e", "s", ")">>,
      <<"|", "|", "|", " ", "C", "o", "m", "m", "i", "t", ":", " ">> \o fe_manifest.commit>>

\* the two lines that show a global intent
IntentLines(gi) ==
    <<<<"|", "|", "|", " ", "b", "e", "h", "a", "v", "i", "o", "r", "C", "l", "a", "s", "s", ":", " ">> \o join(gi.behavior_class, <<",", " ">>),
      <<"|", "|", "|", " ", "r", "a", "t", "i", "o", "n", "a", "l", "e", ":", " ">> \o gi.rationale>>

\* the entry resolved inherits the global intent and has no rationale and
\* no behaviour class of its own
ResolvedInherits ==
    /\ is_some(fm_block)
    /\ is_some(unwrap(fe_res))
    /\ unwrap(unwrap(fe_res)).inherits_global_intent = Some(TRUE)
    /\ is_empty(unwrap(unwrap(fe_res)).rationale)
    /\ is_empty(unwrap(unwrap(fe_res)).behavior_class)

\* C23: when the entry resolved has inheritsGlobalIntent = true and neither
\* a rationale nor a behaviour class of its own, the block shows the
\* behaviour class and the rationale of the manifest's global intent.
C23_InheritsGlobalIntent ==
    (ResolvedInherits /\ is_some(fe_manifest.global_intent)) =>
        LET gi == unwrap(fe_manifest.global_intent) IN
        \A k \in 1..2 : \E i \in 1..Len(MarkerLines) :
            MarkerLines[i] = IntentLines(gi)[k]

\* C24: when no entry of the manifest matches the file, the block is the
\* header and commit lines, followed by the behaviour class and rationale
\* lines of the global intent when the manifest has one, and nothing else.
C24_NoMatchShowsGlobalIntent ==
    (is_some(fm_block) /\ is_none(unwrap(fe_res))) =>
        MarkerLines =
            HeaderLines \o (IF is_some(fe_manifest.global_intent)
                            THEN IntentLines(unwrap(fe_manifest.global_intent))
                            ELSE <<>>)

\* src/util.rs against a manifest with entries for other files and a
\* global intent: four lines
C24_Witness ==
    /\ is_some(fm_block)
    /\ fe_path = <<"s", "r", "c", "/", "u", "t", "i", "l", ".", "r", "s">>
    /\ fe_manifest.entries = <<ENTRY_MAIN, ENTRY_LIB>>
    /\ is_some(fe_manifest.global_intent)
    /\ Len(MarkerLines) = 4

---------------------------------------------------------------------------
(* enrich_all_conflicts (merge.rs 18-29): one call of                     *)
(* enrich_conflict_markers per conflicted file                            *)

\* lines 64-103 as one function: the text the loop builds from line idx on
RECURSIVE enrich_lines(_, _, _, _, _)
enrich_lines(lines, idx, file_path, ours_manifest, theirs_manifest) ==
    IF idx >= Len(lines) THEN <<>>
    ELSE LET line == lines[idx + 1] IN
         (IF starts_with(line, CONFLICT_START)
          THEN on_conflict_start(line,
                   ours_block(ours_manifest, file_path, lines, idx))
          ELSE IF starts_with(line, CONFLICT_MIDDLE) THEN emit(line)
          ELSE IF starts_with(line, CONFLICT_END)
          THEN on_conflict_end(line,
                   theirs_block(theirs_manifest, file_path, lines, idx))
          ELSE emit(line))
         \o enrich_lines(lines, idx + 1, file_path, ours_manifest, theirs_manifest)

\* a file of the working tree: whether it exists, whether its bytes are
\* UTF-8 (fs::read_to_string fails on others), whether it can be written,
\* and its text
WtFile(exists, utf8, writable, text) ==
    [exists |-> exists, utf8 |-> utf8, writable |-> writable, text |-> text]

\* enrich_conflict_markers (40-107) as one call: the Result<bool> and the
\* file afterwards
enrich_conflict_markers(f, file_path, ns, ours_sha, theirs_sha) ==
    IF ~f.exists THEN [result |-> Ok(FALSE), file |-> f]
    ELSE IF ~f.utf8
    THEN [result |-> Err("Failed to read conflicted file"), file |-> f]
    ELSE IF ~contains(f.text, CONFLICT_START) THEN [result |-> Ok(FALSE), file |-> f]
    ELSE LET ours_manifest == load_ok(ns, ours_sha)
             theirs_manifest == load_ok(ns, theirs_sha) IN
         IF is_none(ours_manifest) /\ is_none(theirs_manifest)
         THEN [result |-> Ok(FALSE), file |-> f]
         ELSE IF ~f.writable
         THEN [result |-> Err("Failed to write enriched file"), file |-> f]
         ELSE [result |-> Ok(TRUE),
               file |-> [f EXCEPT !.text =
                            enrich_lines(str_lines(f.text), 0, file_path,
                                         ours_manifest, theirs_manifest)]]

\* the largest number of conflicted files
MaxFiles == 3

TEXT_CONFLICT == <<"<", "<", "<", "<", "<", "<", "<", " ", "H", "E", "A", "D", "\n", "a", "\n", "=", "=", "=", "=", "=", "=", "=", "\n", "b", "\n", ">", ">", ">", ">", ">", ">", ">", " ", "f", "e", "a", "t", "u", "r", "e", "\n">>
TEXT_PLAIN == <<"f", "n", " ", "m", "a", "i", "n", "(", ")", " ", "{", "}", "\n">>

\* deleted on one side; a binary file; a file git merged by a driver
\* without markers; a conflicted text file; one that cannot be written
FILE_MISSING == WtFile(FALSE, TRUE, TRUE, <<>>)
FILE_BINARY == WtFile(TRUE, FALSE, TRUE, <<>>)
FILE_PLAIN == WtFile(TRUE, TRUE, TRUE, TEXT_PLAIN)
FILE_CONFLICT == WtFile(TRUE, TRUE, TRUE, TEXT_CONFLICT)
FILE_READONLY == WtFile(TRUE, TRUE, FALSE, TEXT_CONFLICT)

OrchFiles == {FILE_MISSING, FILE_BINARY, FILE_PLAIN, FILE_CONFLICT, FILE_READONLY}

\* the i-th line of `git diff --name-only --diff-filter=U`
conflicted_file(i) ==
    IF i = 1 THEN FILE_PATH ELSE <<"s", "r", "c", "/", "f">> \o fmt_usize(i) \o <<".", "r", "s">>

OrchNotes ==
    {NoNotes,
     [c \in CommitIds |-> IF c = SHA_OURS THEN Some(to_string_pretty(MANIFEST_MAIN))
                          ELSE None],
     [c \in CommitIds |-> IF c = SHA_OURS THEN Some(to_string_pretty(MANIFEST_MAIN))
                          ELSE Some(to_string_pretty(MANIFEST_FEATURE))]}

InitOrch ==
    /\ IdleMigrate
    /\ IdleLoad
    /\ IdleEnrich
    /\ IdlePending
    /\ IdleFind
    /\ IdleCmd
    /\ IdleCommit
    /\ notes \in OrchNotes
    /\ orch_tree \in SeqsUpTo(OrchFiles, MaxFiles)
    /\ orch_idx = 0
    /\ orch_count = 0
    /\ orch_result = None
    /\ orch_enriched = {}

\* the call of line 23 on the next file of the list
NextCall ==
    enrich_conflict_markers(orch_tree[orch_idx + 1], conflicted_file(orch_idx + 1),
                            notes, SHA_OURS, SHA_THEIRS)

\* lines 22-26: the call returns Ok(true), the file is counted
OrchEnriched ==
    /\ orch_result = None
    /\ orch_idx < Len(orch_tree)
    /\ NextCall.result = Ok(TRUE)
    /\ orch_tree' = [orch_tree EXCEPT ![orch_idx + 1] = NextCall.file]
    /\ orch_count' = orch_count + 1
    /\ orch_enriched' = orch_enriched \cup {orch_idx + 1}
    /\ orch_idx' = orch_idx + 1
    /\ UNCHANGED <<but_orch_vars, notes, orch_result>>

\* lines 22-26: the call returns Ok(false)
OrchSkipped ==
    /\ orch_result = None
    /\ orch_idx < Len(orch_tree)
    /\ NextCall.result = Ok(FALSE)
    /\ orch_idx' = orch_idx + 1
    /\ UNCHANGED <<but_orch_vars, notes, orch_tree, orch_count, orch_result,
                   orch_enriched>>

\* line 23: the `?` returns the Err of the call from enrich_all_conflicts
OrchFailed ==
    /\ orch_result = None
    /\ orch_idx < Len(orch_tree)
    /\ ~NextCall.result.ok
    /\ orch_result' = Some(NextCall.result)
    /\ UNCHANGED <<but_orch_vars, notes, orch_tree, orch_idx, orch_count,
                   orch_enriched>>

\* line 28: Ok(enriched_count)
OrchReturn ==
    /\ orch_result = None
    /\ orch_idx = Len(orch_tree)
    /\ orch_result' = Some(Ok(orch_count))
    /\ UNCHANGED <<but_orch_vars, notes, orch_tree, orch_idx, orch_count,
                   orch_enriched>>

NextOrch == OrchEnriched \/ OrchSkipped \/ OrchFailed \/ OrchReturn

SpecOrch == InitOrch /\ [][NextOrch]_vars

\* C16: a failure to read or write one conflicted file is confined to that
\* file: when enrich_all_conflicts returns, every file of the list has been
\* processed and the value returned is the count of the files enriched.
C16_FailureConfinedToFile ==
    is_some(orch_result) =>
        /\ orch_idx = Len(orch_tree)
        /\ orch_result = Some(Ok(Cardinality(orch_enriched)))

---------------------------------------------------------------------------
(* gip merge and gip rebase (commands/merge.rs, commands/rebase.rs) under *)
(* main (main.rs 74-96)                                                   *)

\* the exit codes of git: success, a conflict, a fatal error
GIT_OK == 0
GIT_CONFLICT == 1
GIT_FATAL == 128

\* ExitStatus::success
success(status) == status = Some(GIT_OK)

\* status.code().unwrap_or(1)
code_or_1(status) == IF is_some(status) THEN unwrap(status) ELSE 1

\* main returning Err: the runtime prints the error and exits with 1
EXIT_FAILURE == 1

\* git ran: its status, and what rev-parse will answer.  HEAD resolves
\* unless git failed fatally (no repository, no commit yet).
InitCmd ==
    /\ IdleMigrate
    /\ IdleLoad
    /\ IdleEnrich
    /\ IdlePending
    /\ IdleFind
    /\ IdleCommit
    /\ notes = [c \in CommitIds |->
                   IF c = SHA_OURS THEN Some(to_string_pretty(MANIFEST_MAIN))
                   ELSE Some(to_string_pretty(MANIFEST_FEATURE))]
    /\ orch_tree \in SeqsUpTo(OrchFiles, MaxFiles)
    /\ orch_idx = 0
    /\ orch_count = 0
    /\ orch_result = None
    /\ orch_enriched = {}
    /\ cmd_kind \in {"merge", "rebase"}
    /\ cmd_status \in {Some(GIT_OK), Some(GIT_CONFLICT), Some(GIT_FATAL), None}
    /\ cmd_head \in BOOLEAN
    /\ cmd_other \in BOOLEAN
    /\ ~cmd_head => cmd_status = Some(GIT_FATAL)
    /\ cmd_pc = "git"
    /\ cmd_exit = None

\* merge.rs 16-19, rebase.rs 15-18: git succeeded, run returns Ok(())
CmdSuccess ==
    /\ cmd_pc = "git"
    /\ success(cmd_status)
    /\ cmd_exit' = Some(0)
    /\ cmd_pc' = "done"
    /\ UNCHANGED <<but_cmd_vars, orch_vars, cmd_kind, cmd_status, cmd_head, cmd_other>>

\* merge.rs 33, rebase.rs 38: git::get_current_commit()? returns the Err
CmdHeadFails ==
    /\ cmd_pc = "git"
    /\ ~success(cmd_status)
    /\ ~cmd_head
    /\ cmd_exit' = Some(EXIT_FAILURE)
    /\ cmd_pc' = "done"
    /\ UNCHANGED <<but_cmd_vars, orch_vars, cmd_kind, cmd_status, cmd_head, cmd_other>>

\* merge.rs 34-44, rebase.rs 39-50: the other side is not determined
CmdNoOther ==
    /\ cmd_pc = "git"
    /\ ~success(cmd_status)
    /\ cmd_head
    /\ ~cmd_other
    /\ cmd_exit' = Some(code_or_1(cmd_status))
    /\ cmd_pc' = "done"
    /\ UNCHANGED <<but_cmd_vars, orch_vars, cmd_kind, cmd_status, cmd_head, cmd_other>>

\* merge.rs 46, rebase.rs 54: enrich_all_conflicts is entered
CmdEnrich ==
    /\ cmd_pc = "git"
    /\ ~success(cmd_status)
    /\ cmd_head
    /\ cmd_other
    /\ cmd_pc' = "enrich"
    /\ UNCHANGED <<but_cmd_vars, orch_vars, cmd_kind, cmd_status, cmd_head, cmd_other,
                   cmd_exit>>

\* the steps of enrich_all_conflicts
CmdEnrichStep ==
    /\ cmd_pc = "enrich"
    /\ NextOrch

\* merge.rs 46, rebase.rs 54: the `?` returns the Err of enrichment
CmdEnrichFailed ==
    /\ cmd_pc = "enrich"
    /\ is_some(orch_result)
    /\ ~unwrap(orch_result).ok
    /\ cmd_exit' = Some(EXIT_FAILURE)
    /\ cmd_pc' = "done"
    /\ UNCHANGED <<but_cmd_vars, orch_vars, cmd_kind, cmd_status, cmd_head, cmd_other>>

\* merge.rs 48-58, rebase.rs 56-65: the count is printed, then
\* std::process::exit(status.code().unwrap_or(1))
CmdExit ==
    /\ cmd_pc = "enrich"
    /\ is_some(orch_result)
    /\ unwrap(orch_result).ok
    /\ cmd_exit' = Some(code_or_1(cmd_status))
    /\ cmd_pc' = "done"
    /\ UNCHANGED <<but_cmd_vars, orch_vars, cmd_kind, cmd_status, cmd_head, cmd_other>>

NextCmd ==
    \/ CmdSuccess
    \/ CmdHeadFails
    \/ CmdNoOther
    \/ CmdEnrich
    \/ CmdEnrichStep
    \/ CmdEnrichFailed
    \/ CmdExit

SpecCmd == InitCmd /\ [][NextCmd]_vars

\* C17: after a merge or rebase that git ends with a non-zero status, the
\* process exits with git's status code, whether enrichment enriched files,
\* found nothing, could not determine the other side, or failed.
C17_ExitsWithGitStatus ==
    (is_some(cmd_exit) /\ is_some(cmd_status) /\ ~success(cmd_status))
        => cmd_exit = cmd_status

---------------------------------------------------------------------------
(* gip commit (commands/commit.rs 36-155)                                 *)

\* the placeholder of the template's rationale (commit.rs 29 and 76)
PLACEHOLDER == <<"D", "e", "s", "c", "r", "i", "b", "e", " ", "y", "o", "u", "r", " ", "c", "h", "a", "n", "g", "e", "s", " ", "h", "e", "r", "e">>

\* an authoring file: the instruction comments of the template (or none),
\* then its body with a symbol and a rationale filled in
TEMPLATE_COMMENTS ==
    <<";", " ", "G", "i", "p", " ", "M", "a", "n", "i", "f", "e", "s", "t", " ", "T", "e", "m", "p", "l", "a", "t", "e", "\n", ";", " ", "T", "h", "i", "s", " ", "f", "i", "l", "e", " ", "d", "e", "s", "c", "r", "i", "b", "e", "s", " ", "t", "h", "e", " ", "s", "e", "m", "a", "n", "t", "i", "c", " ", "i", "n", "t", "e", "n", "t", " ", "o", "f", " ", "y", "o", "u", "r", " ", "c", "h", "a", "n", "g", "e", "s", ".", "\n", ";", " ", "I", "t", " ", "i", "s", " ", "u", "s", "e", "d", " ", "t", "o", " ", "e", "n", "r", "i", "c", "h", " ", "m", "e", "r", "g", "e", " ", "c", "o", "n", "f", "l", "i", "c", "t", "s", " ", "w", "i", "t", "h", " ", "c", "o", "n", "t", "e", "x", "t", ".", "\n", ";", "\n", ";", " ", "I", "N", "S", "T", "R", "U", "C", "T", "I", "O", "N", "S", " ", "F", "O", "R", " ", "L", "L", "M", "/", "A", "G", "E", "N", "T", "S", ":", "\n", ";", " ", "1", ".", " ", "A", "n", "a", "l", "y", "z", "e", " ", "t", "h", "e", " ", "c", "o", "d", "e", " ", "c", "h", "a", "n", "g", "e", "s", " ", "i", "n", " ", "t", "h", "e", " ", "c", "u", "r", "r", "e", "n", "t", " ", "c", "o", "m", "m", "i", "t", ".", "\n", ";", " ", "2", ".", " ", "U", "p", "d", "a", "t", "e", " ", "t", "h", "e", " ", "f", "i", "e", "l", "d", "s", " ", "b", "e", "l", "o", "w", " ", "t", "o", " ", "r", "e", "f", "l", "e", "c", "t", " ", "t", "h", "e", " ", "a", "c", "t", "u", "a", "l", " ", "c", "h", "a", "n", "g", "e", "s", ".", "\n", ";", " ", "3", ".", " ", "'", "r", "a", "t", "i", "o", "n", "a", "l", "e", "'", " ", "s", "h", "o", "u", "l", "d", " ", "e", "x", "p", "l", "a", "i", "n", " ", "W", "H", "Y", " ", "t", "h", "e", " ", "c", "h", "a", "n", "g", "e", " ", "w", "a", "s", " ", "m", "a", "d", "e", ".", "\n", ";", " ", "4", ".", " ", "'", "b", "e", "h", "a", "v", "i", "o", "r", "C", "l", "a", "s", "s", "'", " ", "o", "p", "t", "i", "o", "n", "s", ":", " ", "f", "e", "a", "t", "u", "r", "e", ",", " ", "b", "u", "g", "f", "i", "x", ",", " ", "r", "e", "f", "a", "c", "t", "o", "r", ",", " ", "p", "e", "r", "f", ",", " ", "s", "e", "c", "u", "r", "i", "t", "y", ",", " ", "c", "o", "n", "f", "i", "g", ".", "\n", ";", " ", "5", ".", " ", "'", "c", "h", "a", "n", "g", "e", "T", "y", "p", "e", "'", " ", "o", "p", "t", "i", "o", "n", "s", ":", " ", "a", "d", "d", ",", " ", "m", "o", "d", "i", "f", "y", ",", " ", "d", "e", "l", "e", "t", "e", ",", " ", "r", "e", "n", "a", "m", "e", ".", "\n", ";", " ", "6", ".", " ", "R", "e", "m", "o", "v", "e", " ", "t", "h", "e", "s", "e", " ", "i", "n", "s", "t", "r", "u", "c", "t", "i", "o", "n", " ", "c", "o", "m", "m", "e", "n", "t", "s", " ", "i", "f", " ", "d", "e", "s", "i", "r", "e", "d", ",", " ", "b", "u", "t", " ", "k", "e", "e", "p", " ", "t", "h", "e", " ", "s", "t", "r", "u", "c", "t", "u", "r", "e", ".", "\n", "\n">>
TEMPLATE_BODY_1 ==
    <<"s", "c", "h", "e", "m", "a", "V", "e", "r", "s", "i", "o", "n", ":", " ", "\"", "2", ".", "0", "\"", "\n", "c", "o", "m", "m", "i", "t", ":", " ", "H", "E", "A", "D", "\n", "e", "n", "t", "r", "i", "e", "s", "[", "1", "]", ":", "\n", " ", " ", "-", " ", "a", "n", "c", "h", "o", "r", ":", "\n", " ", " ", " ", " ", " ", " ", "f", "i", "l", "e", ":", " ", "s", "r", "c", "/", "m", "a", "i", "n", ".", "r", "s", "\n", " ", " ", " ", " ", " ", " ", "s", "y", "m", "b", "o", "l", ":", " ">>
TEMPLATE_BODY_2 ==
    <<"\n", " ", " ", " ", " ", " ", " ", "h", "u", "n", "k", "I", "d", ":", " ", "H", "#", "1", "\n", " ", " ", " ", " ", "c", "h", "a", "n", "g", "e", "T", "y", "p", "e", ":", " ", "m", "o", "d", "i", "f", "y", "\n", " ", " ", " ", " ", "r", "a", "t", "i", "o", "n", "a", "l", "e", ":", " ">>
TEMPLATE_BODY_3 ==
    <<"\n", " ", " ", " ", " ", "b", "e", "h", "a", "v", "i", "o", "r", "C", "l", "a", "s", "s", "[", "1", "]", ":", " ", "f", "e", "a", "t", "u", "r", "e", "\n", " ", " ", " ", " ", "c", "o", "n", "t", "r", "a", "c", "t", ":", "\n", " ", " ", " ", " ", " ", " ", "p", "r", "e", "c", "o", "n", "d", "i", "t", "i", "o", "n", "s", "[", "1", "]", ":", " ", "n", "o", "n", "e", "\n", " ", " ", " ", " ", " ", " ", "p", "o", "s", "t", "c", "o", "n", "d", "i", "t", "i", "o", "n", "s", "[", "1", "]", ":", " ", "p", "r", "o", "g", "r", "a", "m", "_", "r", "u", "n", "s", "\n", " ", " ", " ", " ", " ", " ", "e", "r", "r", "o", "r", "M", "o", "d", "e", "l", "[", "1", "]", ":", " ", "p", "a", "n", "i", "c", "_", "o", "n", "_", "e", "r", "r", "o", "r", "\n">>

authoring_text(comments, symbol, rationale) ==
    comments \o TEMPLATE_BODY_1 \o symbol \o TEMPLATE_BODY_2 \o rationale
        \o TEMPLATE_BODY_3

\* const TEMPLATE (commit.rs 8-34)
TEMPLATE == authoring_text(TEMPLATE_COMMENTS, <<"m", "a", "i", "n">>, PLACEHOLDER)

\* str::replace("\r\n", "\n"): every "\r" right before a "\n" is dropped
replace_crlf(s) ==
    LET Kept(i) == ~(s[i] = "\r" /\ i < Len(s) /\ s[i + 1] = "\n")
        kept == SelectSeq([i \in 1..Len(s) |-> i], Kept) IN
    [k \in 1..Len(kept) |-> s[kept[k]]]

\* a text saved by an editor that ends every line with "\r\n"
with_crlf(s) ==
    concat([i \in 1..Len(str_lines(s)) |-> str_lines(s)[i] \o <<"\r", "\n">>])

\* commit.rs 71: normalized_template.trim()
NORMALIZED_TEMPLATE == trim(replace_crlf(TEMPLATE))

\* commit.rs 69-73: the file is the template but for line ends and outer
\* white space
unchanged_from_template(content) ==
    trim(replace_crlf(content)) = NORMALIZED_TEMPLATE

\* the placeholder test on the rationale line alone
rationale_is_placeholder(content) ==
    \E i \in 1..Len(str_lines(content)) :
        trim(str_lines(content)[i]) = <<"r", "a", "t", "i", "o", "n", "a", "l", "e", ":", " ">> \o PLACEHOLDER

\* commit.rs 76: content.contains("Describe your changes here")
contains_placeholder(content) == contains(content, PLACEHOLDER)

\* anyhow::bail!("Commit rejected. See output for details.") (commit.rs 105)
REJECTED == Err("Commit rejected. See output for details.")

\* write_template leaving the file missing
write_template_skipped(f) == f

\* commit.rs 56-60: fs::write(&manifest_path, TEMPLATE)
write_template(f) == Some(TEMPLATE)

AuthoredSymbols == {<<"m", "a", "i", "n">>, <<"r", "u", "n">>}
AuthoredRationales == {PLACEHOLDER, <<"F", "i", "x", " ", "l", "o", "g", "i", "n">>, <<"T", "O", "D", "O", ":", " ">> \o PLACEHOLDER}
AuthoredComments == {TEMPLATE_COMMENTS, <<>>}

\* the manifest an authoring file describes
authored_manifest(symbol, rationale) ==
    Manifest(SCHEMA_VERSION_2_0, HEAD_LABEL, None,
        <<Entry(Anchor(FILE_PATH, symbol, HUNK_1), CHANGE_MODIFY, rationale,
                <<BEHAVIOR_FEATURE>>,
                Contract(None, None, <<<<"n", "o", "n", "e">>>>, <<<<"p", "r", "o", "g", "r", "a", "m", "_", "r", "u", "n", "s">>>>,
                         <<<<"p", "a", "n", "i", "c", "_", "o", "n", "_", "e", "r", "r", "o", "r">>>>),
                <<>>, None, None)>>)

\* the authoring files of the model without their outer white space
AuthoredTexts ==
    [f \in AuthoredComments \X AuthoredSymbols \X AuthoredRationales |->
        trim(authoring_text(f[1], f[2], f[3]))]

\* toon_format::decode (commit.rs 111-113) on the texts of the model: an
\* authoring file decodes to its manifest, whatever its line ends and outer
\* white space, and any other text is an error
decode(content) ==
    LET text == trim(replace_crlf(content))
        fits == {f \in DOMAIN AuthoredTexts : text = AuthoredTexts[f]} IN
    IF fits = {} THEN Err("Failed to parse manifest.toon")
    ELSE LET f == CHOOSE f \in fits : TRUE IN Ok(authored_manifest(f[2], f[3]))

\* notes that are not TOON, one of them quoting the placeholder
TEXT_NOTES == <<"f", "i", "x", " ", "l", "a", "t", "e", "r">>
TEXT_QUOTE == <<"r", "a", "t", "i", "o", "n", "a", "l", "e", " ", "w", "a", "s", ":", " ">> \o PLACEHOLDER

AuthoringFiles ==
    {authoring_text(c, sy, r) :
        c \in AuthoredComments, sy \in AuthoredSymbols, r \in AuthoredRationales}
        \cup {with_crlf(TEMPLATE), TEMPLATE \o <<"\n", " ">>,
               with_crlf(authoring_text(<<>>, <<"r", "u", "n">>, <<"F", "i", "x", " ", "l", "o", "g", "i", "n">>)),
               TEXT_NOTES, TEXT_QUOTE}

InitCommit ==
    /\ IdleMigrate
    /\ IdleLoad
    /\ IdleEnrich
    /\ IdlePending
    /\ IdleFind
    /\ IdleOrch
    /\ IdleCmd
    /\ notes = NoNotes
    /\ com_force \in BOOLEAN
    /\ com_git_ok \in BOOLEAN
    /\ com_file \in {None} \cup {Some(t) : t \in AuthoringFiles}
    /\ com_file0 = com_file
    /\ com_manifest = None
    /\ com_pc = "start"
    /\ com_invoked = FALSE
    /\ com_result = None
    /\ com_commits = 0
    /\ com_authored = is_some(com_file)

\* commit.rs 53-66 and 83-105: no file, the template is written, rejected
ComCreateTemplate ==
    /\ com_pc = "start"
    /\ ~com_force
    /\ is_none(com_file)
    /\ com_file' = write_template(com_file)
    /\ com_result' = Some(REJECTED)
    /\ com_pc' = "done"
    /\ UNCHANGED <<but_com_vars, notes, com_force, com_git_ok, com_file0,
                   com_manifest, com_invoked,
                   com_commits, com_authored>>

\* commit.rs 67-75 and 83-105: the file is the template, rejected
ComRejectUnchanged ==
    /\ com_pc = "start"
    /\ ~com_force
    /\ is_some(com_file)
    /\ unchanged_from_template(unwrap(com_file))
    /\ com_result' = Some(REJECTED)
    /\ com_pc' = "done"
    /\ UNCHANGED <<but_com_vars, notes, com_force, com_git_ok, com_file, com_file0,
                   com_manifest, com_invoked,
                   com_commits, com_authored>>

\* commit.rs 76-80 and 83-105: the file holds the placeholder, rejected
ComRejectPlaceholder ==
    /\ com_pc = "start"
    /\ ~com_force
    /\ is_some(com_file)
    /\ ~unchanged_from_template(unwrap(com_file))
    /\ contains_placeholder(unwrap(com_file))
    /\ com_result' = Some(REJECTED)
    /\ com_pc' = "done"
    /\ UNCHANGED <<but_com_vars, notes, com_force, com_git_ok, com_file, com_file0,
                   com_manifest, com_invoked,
                   com_commits, com_authored>>

\* the ids git gives to the commits it makes, in order
NewCommitIds == <<SHA_OURS, SHA_THEIRS>>

\* git::get_current_commit() (git.rs 43-45) once git has made n commits
get_current_commit(n) == NewCommitIds[n]

\* a file that does not parse taken for no file at all
manifest_of_lenient(file) ==
    LET decoded == decode(unwrap(file)) IN
    IF is_some(file) /\ decoded.ok THEN Ok(Some(decoded.val)) ELSE Ok(None)

\* commit.rs 109-123: let manifest: Option<Manifest>, or the Err of decode
manifest_of(file) ==
    LET decoded == decode(unwrap(file)) IN
    IF is_none(file) THEN Ok(None)
    ELSE IF decoded.ok THEN Ok(Some(decoded.val))
    ELSE decoded

\* the manifest saved with the commit field as it was authored
final_manifest_as_authored(manifest, commit_sha) == manifest

\* commit.rs 146-147: final_manifest.commit = commit_sha.clone()
final_manifest(manifest, commit_sha) == [manifest EXCEPT !.commit = commit_sha]

\* validation is skipped (--force) or passes
passes_validation ==
    \/ com_force
    \/ /\ is_some(com_file)
       /\ ~unchanged_from_template(unwrap(com_file))
       /\ ~contains_placeholder(unwrap(com_file))

\* commit.rs 111-113: decode(&content, &opts)? returns the Err
ComDecodeFails ==
    /\ com_pc = "start"
    /\ passes_validation
    /\ ~manifest_of(com_file).ok
    /\ com_result' = Some(manifest_of(com_file))
    /\ com_pc' = "done"
    /\ UNCHANGED <<but_com_vars, notes, com_force, com_git_ok, com_file, com_file0,
                   com_manifest, com_invoked,
                   com_commits, com_authored>>

\* commit.rs 111-128: the manifest is decoded, or there is none (--force)
ComValidated ==
    /\ com_pc = "start"
    /\ passes_validation
    /\ manifest_of(com_file).ok
    /\ com_manifest' = manifest_of(com_file).val
    /\ com_pc' = "git"
    /\ UNCHANGED <<but_com_vars, notes, com_force, com_git_ok, com_file, com_file0,
                   com_invoked, com_result,
                   com_commits, com_authored>>

\* commit.rs 139 and passthrough.rs 10-12: git commit fails, the process
\* exits with its status
ComGitFails ==
    /\ com_pc = "git"
    /\ ~com_git_ok
    /\ com_invoked' = TRUE
    /\ com_result' = Some(Err("git commit failed"))
    /\ com_pc' = "done"
    /\ UNCHANGED <<but_com_vars, notes, com_force, com_git_ok, com_file, com_file0,
                   com_manifest,
                   com_commits, com_authored>>

\* commit.rs 139: git commit succeeds
ComGitCommit ==
    /\ com_pc = "git"
    /\ com_git_ok
    /\ com_invoked' = TRUE
    /\ com_commits' = com_commits + 1
    /\ com_pc' = "note"
    /\ UNCHANGED <<but_com_vars, notes, com_force, com_git_ok, com_file, com_file0,
                   com_manifest, com_result, com_authored>>

\* commit.rs 142-149: the manifest is saved under the new commit, its
\* commit field set to the commit id
ComSaveNote ==
    /\ com_pc = "note"
    /\ is_some(com_manifest)
    /\ LET commit_sha == get_current_commit(com_commits) IN
          notes' = save(notes, final_manifest(unwrap(com_manifest), commit_sha),
                        commit_sha)
    /\ com_authored' = FALSE
    /\ com_result' = Some(Ok(TRUE))
    /\ com_pc' = "done"
    /\ UNCHANGED <<but_com_vars, com_force, com_git_ok, com_file, com_file0,
                   com_manifest, com_invoked, com_commits>>

\* commit.rs 142 and 154: no manifest to attach
ComNoNote ==
    /\ com_pc = "note"
    /\ is_none(com_manifest)
    /\ com_result' = Some(Ok(TRUE))
    /\ com_pc' = "done"
    /\ UNCHANGED <<but_com_vars, notes, com_force, com_git_ok, com_file, com_file0,
                   com_manifest, com_invoked,
                   com_commits, com_authored>>

NextCommit ==
    \/ ComCreateTemplate
    \/ ComRejectUnchanged
    \/ ComRejectPlaceholder
    \/ ComDecodeFails
    \/ ComValidated
    \/ ComGitFails
    \/ ComGitCommit
    \/ ComSaveNote
    \/ ComNoNote

SpecCommit == InitCommit /\ [][NextCommit]_vars

\* the authoring file the command found holds the placeholder
HadPlaceholder ==
    is_some(com_file0) /\ contains(unwrap(com_file0), PLACEHOLDER)

\* the command was rejected by validation
Rejected == com_pc = "done" /\ com_result = Some(REJECTED)

C20_RejectionFrame ==
    /\ Rejected =>
          /\ ~com_invoked
          /\ notes = NoNotes
          /\ is_some(com_file0) => com_file = com_file0
          /\ is_none(com_file0) => com_file = Some(TEMPLATE)
    /\ (com_pc = "done" /\ is_none(com_file0) /\ ~com_force) => Rejected

\* the file was missing: the template is there and the commit is rejected
C20_Witness ==
    /\ Rejected
    /\ is_none(com_file0)
    /\ com_file = Some(TEMPLATE)
    /\ ~com_invoked

---------------------------------------------------------------------------
(* gip commit run again and again in one repository                       *)

\* the files the author writes between two commits
ReauthoredFiles ==
    {authoring_text(<<>>, <<"r", "u", "n">>, <<"F", "i", "x", " ", "l", "o", "g", "i", "n">>),
     authoring_text(TEMPLATE_COMMENTS, <<"m", "a", "i", "n">>, <<"F", "i", "x", " ", "l", "o", "g", "i", "n">>),
     TEXT_NOTES}

\* the author writes .gip/manifest.toon while no command runs
ComAuthor ==
    /\ com_pc = "done"
    /\ \E text \in ReauthoredFiles : com_file' = Some(text)
    /\ com_authored' = TRUE
    /\ UNCHANGED <<but_com_vars, notes, com_force, com_git_ok, com_file0,
                   com_manifest, com_pc, com_invoked, com_result, com_commits>>

\* main.rs 74-96: gip commit is run once more, on the working tree as it is
ComAgain ==
    /\ com_pc = "done"
    /\ com_commits < Len(NewCommitIds)
    /\ com_force' \in BOOLEAN
    /\ com_git_ok' \in BOOLEAN
    /\ com_file0' = com_file
    /\ com_manifest' = None
    /\ com_invoked' = FALSE
    /\ com_result' = None
    /\ com_pc' = "start"
    /\ UNCHANGED <<but_com_vars, notes, com_file, com_commits, com_authored>>

NextCommits ==
    \/ NextCommit
    \/ ComAuthor
    \/ ComAgain

SpecCommits == InitCommit /\ [][NextCommits]_vars

\* the command ended well and had a manifest
CommittedWithManifest ==
    com_pc = "done" /\ com_result = Some(Ok(TRUE)) /\ is_some(com_manifest)

\* the record of the store under commit id c
record(c) == from_str(unwrap(notes[c])).val

\* C21: after every successful commit made with a manifest the store holds,
\* under the id of the new commit, the authored manifest with its commit
\* field set to that id; and every record of the store has its key in its
\* commit field.
C21_RecordCommitIsKey ==
    /\ CommittedWithManifest =>
          LET commit_sha == get_current_commit(com_commits) IN
          /\ is_some(notes[commit_sha])
          /\ from_str(unwrap(notes[commit_sha])).ok
          /\ record(commit_sha) = [unwrap(com_manifest) EXCEPT !.commit = commit_sha]
    /\ \A c \in CommitIds : is_some(notes[c]) => record(c).commit = c

\* two commits made with manifests authored with the placeholder HEAD: each
\* has its record, under its own id
C21_Witness ==
    /\ CommittedWithManifest
    /\ com_commits = 2
    /\ unwrap(com_manifest).commit = HEAD_LABEL
    /\ record(SHA_OURS).commit = SHA_OURS
    /\ record(SHA_THEIRS).commit = SHA_THEIRS

\* C22: after a successful commit made with a manifest the authoring file
\* is no longer in the working tree, and a manifest is attached to a commit
\* only if its file was written since the last manifest was attached.
C22_PendingConsumed ==
    /\ CommittedWithManifest => is_none(com_file)
    /\ (com_pc = "note" /\ is_some(com_manifest)) => com_authored

\* C27: the store changes only in a run of the command that has parsed the
\* authoring file and whose git commit has succeeded; a run on a file that
\* does not parse never invokes git commit.
C27_SavedAfterParseAndCommit ==
    /\ [][notes' # notes =>
            /\ is_some(com_file0)
            /\ decode(unwrap(com_file0)).ok
            /\ com_manifest = Some(decode(unwrap(com_file0)).val)
            /\ com_invoked
            /\ com_git_ok]_vars
    /\ []((is_some(com_file0) /\ ~decode(unwrap(com_file0)).ok) => ~com_invoked)
    /\ []((com_invoked /\ ~com_git_ok) => com_pc = "done" /\ com_result # Some(Ok(TRUE)))

\* a run has parsed the file and committed: the record of the first commit
\* is saved, and nothing else is
C27_Witness ==
    /\ CommittedWithManifest
    /\ com_commits = 1
    /\ com_invoked
    /\ is_some(notes[SHA_OURS])
    /\ is_none(notes[SHA_THEIRS])

---------------------------------------------------------------------------
(* More properties of the rewriter *)

\* C25: a block is pushed only on a transition of the cycle OUTSIDE ->
\* INSIDE_OURS -> INSIDE_THEIRS -> OUTSIDE: an ours block at a start
\* delimiter met OUTSIDE, a theirs block at an end delimiter met
\* INSIDE_THEIRS, and no block at a delimiter line met in another state.
C25_BlocksOnTransitionsOnly ==
    Rewritten =>
        LET roles == Roles(InLines) IN
        \A b \in 1..Len(enr_blocks) :
            roles[enr_blocks[b].at + 1]
                = (IF enr_blocks[b].side = "ours" THEN "start" ELSE "end")

\* C30: in a file the rewriter wrote every line, original or inserted, ends
\* in one LF and none in CRLF, the last line included; the lines it did not
\* insert are the lines of the input.
C30_LinesEndInLF ==
    Rewritten =>
        LET out == unwrap(wt_file) IN
        /\ out = render(OutLines, LF, TRUE)
        /\ ~contains(out, CRLF)
        /\ enr_blocks = <<>> => OutLines = InLines

\* the file was written without any block and is not the text that was read
WrittenWithoutBlock == Rewritten /\ enr_blocks = <<>> /\ unwrap(wt_file) # enr_content

\* such a file, read with CRLF line ends or without a final newline
C30_Witness ==
    /\ WrittenWithoutBlock
    /\ \/ contains(enr_content, CRLF)
       \/ enr_content[Len(enr_content)] # "\n"

---------------------------------------------------------------------------
(* enrich_conflict_markers run again and again on one file, and on files  *)
(* longer than the context windows                                        *)

\* the largest number of times a file is rewritten
MaxPasses == 3

\* a conflict region and a second one, with a call of main in the first
REGION == <<LINE_START, LINE_MAIN_CALL, LINE_MIDDLE, LINE_OTHER, LINE_END>>
REGION_CALL == <<LINE_START, LINE_CALL, LINE_MIDDLE, LINE_OTHER, LINE_END>>

\* the definition of main, n empty lines, then a conflict region: the start
\* delimiter has index n + 1 and the end delimiter index n + 5
PaddedLines(n) == <<LINE_MAIN>> \o [k \in 1..n |-> <<>>] \o REGION_CALL

\* the numbers of empty lines that put the definition of main right inside
\* and right outside the two windows
WindowPads ==
    {0} \cup ((OURS_CONTEXT - 2)..(OURS_CONTEXT + 1))
        \cup ((THEIRS_CONTEXT - 6)..(THEIRS_CONTEXT - 3))

PassFiles ==
    {None, Some(render(<<LINE_MAIN>>, LF, TRUE)),
     Some(render(REGION \o REGION_CALL, LF, TRUE)),
     Some(render(<<LINE_END>> \o REGION, CRLF, TRUE))}
        \cup {Some(render(PaddedLines(n), LF, TRUE)) : n \in WindowPads}

\* both entries are candidates for the file, helper first
MANIFEST_WINDOW ==
    Manifest(SCHEMA_VERSION_2_0, COMMIT_OLD, None, <<ENTRY_HELPER, ENTRY_MAIN>>)

PassNotes ==
    {NoNotes,
     [c \in CommitIds |-> Some(to_string_pretty(MANIFEST_WINDOW))],
     [c \in CommitIds |-> IF c = SHA_OURS THEN Some(to_string_pretty(MANIFEST_MAIN))
                          ELSE Some(to_string_pretty(MANIFEST_FEATURE))]}

InitPasses ==
    /\ IdleMigrate
    /\ IdleLoad
    /\ IdleExt
    /\ notes \in PassNotes
    /\ wt_file \in PassFiles
    /\ enr_pc = "start"
    /\ enr_content = <<>>
    /\ enr_ours = None
    /\ enr_theirs = None
    /\ enr_lines = <<>>
    /\ enr_idx = 0
    /\ enr_output = <<>>
    /\ enr_result = None
    /\ enr_written = FALSE
    /\ enr_blocks = <<>>
    /\ enr_passes = 0

\* merge.rs 18-29: the file is still listed as conflicted when
\* enrich_all_conflicts runs again, and enrich_conflict_markers is called
\* on it as it is now
EnrichAgain ==
    /\ enr_pc = "done"
    /\ enr_written
    /\ enr_passes < MaxPasses
    /\ enr_pc' = "start"
    /\ enr_content' = <<>>
    /\ enr_ours' = None
    /\ enr_theirs' = None
    /\ enr_lines' = <<>>
    /\ enr_idx' = 0
    /\ enr_output' = <<>>
    /\ enr_result' = None
    /\ enr_written' = FALSE
    /\ enr_blocks' = <<>>
    /\ UNCHANGED <<mig_vars, notes, load_vars, ext_vars, wt_file, enr_passes>>

NextPasses ==
    \/ NextRewrite
    \/ EnrichAgain

SpecPasses == InitPasses /\ [][NextPasses]_vars

\* the window the claim describes: the lines of ls with the indices
\* max(0, idx - size) .. idx - 1, indices from 0
WindowOf(ls, idx, size) ==
    LET lo == IF idx - size > 0 THEN idx - size ELSE 0 IN
    [k \in 1..(idx - lo) |-> ls[lo + k]]

\* C26: the block pushed at an ours delimiter of index i is built on the
\* lines max(0, i - 50) .. i - 1 of the text that was read, the block pushed
\* at an end delimiter of index j on its lines max(0, j - 100) .. j - 1: at
\* most 50 and 100 lines, without the delimiter and without any line pushed
\* earlier in the same pass.
C26_WindowsOfOriginalLines ==
    enr_pc \in {"loop", "done"} =>
        \A b \in 1..Len(enr_blocks) :
            LET idx == enr_blocks[b].at
                line == InLines[idx + 1] IN
            IF enr_blocks[b].side = "ours"
            THEN /\ Len(WindowOf(InLines, idx, 50)) <= 50
                 /\ enr_blocks[b].text =
                       format_enriched_marker(HEAD_LABEL, YOUR_CHANGES,
                           unwrap(enr_ours), FILE_PATH,
                           Some(WindowOf(InLines, idx, 50)))
            ELSE /\ Len(WindowOf(InLines, idx, 100)) <= 100
                 /\ enr_blocks[b].text =
                       format_enriched_marker(
                           trim(SubSeq(line, Len(CONFLICT_END) + 1, Len(line))),
                           THEIR_CHANGES, unwrap(enr_theirs), FILE_PATH,
                           Some(WindowOf(InLines, idx, 100)))

\* the definition of main is 51 lines above the ours delimiter and 55 lines
\* above the end delimiter: the ours block falls back to helper, the theirs
\* block resolves main
C26_Witness ==
    /\ Rewritten
    /\ enr_passes = 1
    /\ InLines[1] = LINE_MAIN
    /\ \E b \in 1..Len(enr_blocks) :
          /\ enr_blocks[b].side = "ours"
          /\ enr_blocks[b].at = 51
          /\ contains(enr_blocks[b].text, <<"|", "|", "|", " ", "s", "y", "m", "b", "o", "l", ":", " ", "h", "e", "l", "p", "e", "r">>)
    /\ \E b \in 1..Len(enr_blocks) :
          /\ enr_blocks[b].side = "theirs"
          /\ enr_blocks[b].at = 55
          /\ contains(enr_blocks[b].text, <<"|", "|", "|", " ", "s", "y", "m", "b", "o", "l", ":", " ", "m", "a", "i", "n">>)

\* line is the first line of a block with this description
is_block_header(line, description) ==
    LET tail == description \o <<")">> IN
    /\ starts_with(line, BLOCK_HEADER)
    /\ Len(line) >= Len(tail)
    /\ SubSeq(line, Len(line) - Len(tail) + 1, Len(line)) = tail

\* no line of ls strictly between i and j is a start or an end delimiter
NoDelimiterBetween(ls, i, j) ==
    \A k \in (i + 1)..(j - 1) :
        ~starts_with(ls[k], CONFLICT_START) /\ ~starts_with(ls[k], CONFLICT_END)

\* the number of ours blocks that follow the start delimiter at i, and of
\* theirs blocks that precede the end delimiter at i
OursBlocksAfter(ls, i) ==
    Cardinality({j \in (i + 1)..Len(ls) :
        is_block_header(ls[j], YOUR_CHANGES) /\ NoDelimiterBetween(ls, i, j)})
TheirsBlocksBefore(ls, i) ==
    Cardinality({j \in 1..(i - 1) :
        is_block_header(ls[j], THEIR_CHANGES) /\ NoDelimiterBetween(ls, j, i)})

\* C28: after n passes over a file with both manifests loaded there are n
\* blocks after each ours delimiter and n before each end delimiter: a pass
\* adds its blocks to those of the passes before.
C28_BlocksAccumulate ==
    (Rewritten /\ is_some(enr_ours) /\ is_some(enr_theirs)) =>
        /\ \A i \in StartLines(OutLines) : OursBlocksAfter(OutLines, i) = enr_passes
        /\ \A i \in EndLines(OutLines) : TheirsBlocksBefore(OutLines, i) = enr_passes

\* two regions after three passes: twelve blocks
C28_Witness ==
    /\ Rewritten
    /\ enr_passes = 3
    /\ is_some(enr_ours)
    /\ is_some(enr_theirs)
    /\ Cardinality(StartLines(OutLines)) = 2
    /\ Cardinality({j \in 1..Len(OutLines) : starts_with(OutLines[j], BLOCK_HEADER)}) = 12

===========================================================================
